---- MODULE Spec2Model ----
(***************************************************************************)
(* Model of the CHATGPT_GO gateway: the definition loader, the service     *)
(* registry with its route index, the path-template matcher, the header    *)
(* handling of the reverse proxy and the OpenAPI synthesizer.              *)
(*                                                                         *)
(* Strings are sequences of one-character strings, so that the string      *)
(* functions the code calls (Trim, Split, ToUpper, ...) are computed.      *)
(***************************************************************************)
EXTENDS Integers, Sequences, FiniteSets, TLC

VARIABLES
    services,       \* Gateway.services: name -> *Service
    fileToService,  \* Gateway.fileToService: source path -> name
    routes,         \* Gateway.routes: method -> list of routes
    mu,             \* Gateway.mu: [writer, readers]
    pc,             \* position of every task of the lock-level model
    lastOp,         \* the handler that completed last, with its arguments
    gone,           \* requests that matched only a service removed since
    arg,            \* input of the function under check
    res             \* its result

vars == <<services, fileToService, routes, mu, pc, lastOp, gone, arg, res>>

----------------------------------------------------------------------------
(* Go's strings package, on sequences of characters.                       *)

LowerAlpha == <<"a","b","c","d","e","f","g","h","i","j","k","l","m",
                "n","o","p","q","r","s","t","u","v","w","x","y","z">>

UpperAlpha == <<"A","B","C","D","E","F","G","H","I","J","K","L","M",
                "N","O","P","Q","R","S","T","U","V","W","X","Y","Z">>

WhiteSpace == {" ", "\t", "\n", "\r"}

ToUpperChar(c) ==
    IF \E i \in 1..Len(LowerAlpha) : LowerAlpha[i] = c
    THEN UpperAlpha[CHOOSE i \in 1..Len(LowerAlpha) : LowerAlpha[i] = c]
    ELSE c

ToLowerChar(c) ==
    IF \E i \in 1..Len(UpperAlpha) : UpperAlpha[i] = c
    THEN LowerAlpha[CHOOSE i \in 1..Len(UpperAlpha) : UpperAlpha[i] = c]
    ELSE c

ToUpper(s) == [i \in 1..Len(s) |-> ToUpperChar(s[i])]

ToLower(s) == [i \in 1..Len(s) |-> ToLowerChar(s[i])]

RECURSIVE TrimLeftSet(_, _)
TrimLeftSet(s, cut) ==
    IF s # <<>> /\ Head(s) \in cut THEN TrimLeftSet(Tail(s), cut) ELSE s

RECURSIVE TrimRightSet(_, _)
TrimRightSet(s, cut) ==
    IF s # <<>> /\ s[Len(s)] \in cut
    THEN TrimRightSet(SubSeq(s, 1, Len(s) - 1), cut)
    ELSE s

\* strings.Trim(s, "/") and strings.TrimRight(s, "/")
Trim(s, c) == TrimRightSet(TrimLeftSet(s, {c}), {c})

TrimRight(s, c) == TrimRightSet(s, {c})

TrimSpace(s) == TrimRightSet(TrimLeftSet(s, WhiteSpace), WhiteSpace)

HasPrefix(s, c) == s # <<>> /\ s[1] = c

HasSuffix(s, c) == s # <<>> /\ s[Len(s)] = c

Contains(s, c) == \E i \in 1..Len(s) : s[i] = c

\* strings.Split(s, sep): one part more than there are separators; Split of
\* the empty string is the one-element list holding the empty string.
RECURSIVE Split(_, _)
Split(s, sep) ==
    IF ~Contains(s, sep) THEN <<s>>
    ELSE LET i == CHOOSE k \in 1..Len(s) :
                      s[k] = sep /\ \A j \in 1..(k - 1) : s[j] # sep
         IN <<SubSeq(s, 1, i - 1)>> \o Split(SubSeq(s, i + 1, Len(s)), sep)

\* strings.Join(parts, sep)
RECURSIVE Join(_, _)
Join(parts, sep) ==
    IF parts = <<>> THEN <<>>
    ELSE IF Len(parts) = 1 THEN parts[1]
    ELSE parts[1] \o <<sep>> \o Join(Tail(parts), sep)

----------------------------------------------------------------------------
(* Go maps and the orders in which a range statement may visit them.       *)

EmptyMap == [x \in {} |-> x]

MapPut(m, k, v) == [x \in (DOMAIN m) \cup {k} |-> IF x = k THEN v ELSE m[x]]

MapDel(m, k) == [x \in (DOMAIN m) \ {k} |-> m[x]]

\* All sequences over alphabet of length at most n.
SeqsUpTo(alphabet, n) == UNION {[1..k -> alphabet] : k \in 0..n}

\* Every order in which the elements of the set S can be visited.
Perms(S) ==
    {p \in [1..Cardinality(S) -> S] : \A x \in S : \E i \in DOMAIN p : p[i] = x}

Range(f) == {f[x] : x \in DOMAIN f}

----------------------------------------------------------------------------
(* route.go: path templates.                                               *)

Slash == "/"

\* One compiled segment of pathSegment{literal, isParam}.
PathSegment(lit, param) == [literal |-> lit, isParam |-> param]

\* parseSegment: the body of the loop of parsePathSegments for one part.
parseSegment(part) ==
    IF part = <<>> THEN [ok |-> FALSE, seg |-> PathSegment(<<>>, FALSE)]
    ELSE IF Contains(part, "{") \/ Contains(part, "}")
    THEN IF HasPrefix(part, "{") /\ HasSuffix(part, "}")
         THEN LET name == TrimSpace(SubSeq(part, 2, Len(part) - 1))
              IN IF name = <<>>
                 THEN [ok |-> FALSE, seg |-> PathSegment(<<>>, FALSE)]
                 ELSE [ok |-> TRUE, seg |-> PathSegment(name, TRUE)]
         ELSE [ok |-> FALSE, seg |-> PathSegment(<<>>, FALSE)]
    ELSE [ok |-> TRUE, seg |-> PathSegment(part, FALSE)]

parsePathSegments(path) ==
    IF path = <<>> THEN [ok |-> FALSE, segments |-> <<>>]
    ELSE IF ~HasPrefix(path, Slash) THEN [ok |-> FALSE, segments |-> <<>>]
    ELSE LET trimmed == Trim(path, Slash)
         IN IF trimmed = <<>> THEN [ok |-> TRUE, segments |-> <<>>]
            ELSE LET parts == Split(trimmed, Slash)
                 IN IF \E i \in 1..Len(parts) : ~parseSegment(parts[i]).ok
                    THEN [ok |-> FALSE, segments |-> <<>>]
                    ELSE [ok |-> TRUE,
                          segments |-> [i \in 1..Len(parts) |->
                                            parseSegment(parts[i]).seg]]

extractPathParamNames(path) ==
    LET p == parsePathSegments(path)
        params == SelectSeq(p.segments, LAMBDA seg : seg.isParam)
    IN [ok |-> p.ok, names |-> [i \in 1..Len(params) |-> params[i].literal]]

\* A slip in the loop of matchPath: literal segments compared without case.
RECURSIVE matchSegments_foldCase(_, _, _)
matchSegments_foldCase(segments, parts, i) ==
    IF i > Len(segments) THEN [ok |-> TRUE, matched |-> <<>>]
    ELSE IF segments[i].isParam
    THEN LET rest == matchSegments_foldCase(segments, parts, i + 1)
         IN [ok |-> rest.ok, matched |-> <<parts[i]>> \o rest.matched]
    ELSE IF ToLower(segments[i].literal) # ToLower(parts[i])
    THEN [ok |-> FALSE, matched |-> <<>>]
    ELSE LET rest == matchSegments_foldCase(segments, parts, i + 1)
         IN [ok |-> rest.ok, matched |-> <<segments[i].literal>> \o rest.matched]

\* A slip in the loop of matchPath: the placeholder's name is passed on in
\* place of the inbound value.
RECURSIVE matchSegments_emitName(_, _, _)
matchSegments_emitName(segments, parts, i) ==
    IF i > Len(segments) THEN [ok |-> TRUE, matched |-> <<>>]
    ELSE IF ~segments[i].isParam /\ segments[i].literal # parts[i]
    THEN [ok |-> FALSE, matched |-> <<>>]
    ELSE LET rest == matchSegments_emitName(segments, parts, i + 1)
         IN [ok |-> rest.ok, matched |-> <<segments[i].literal>> \o rest.matched]

\* The loop of matchPath: FALSE as soon as a literal segment differs.
RECURSIVE matchSegments(_, _, _)
matchSegments(segments, parts, i) ==
    IF i > Len(segments) THEN [ok |-> TRUE, matched |-> <<>>]
    ELSE IF segments[i].isParam
    THEN LET rest == matchSegments(segments, parts, i + 1)
         IN [ok |-> rest.ok, matched |-> <<parts[i]>> \o rest.matched]
    ELSE IF segments[i].literal # parts[i]
    THEN [ok |-> FALSE, matched |-> <<>>]
    ELSE LET rest == matchSegments(segments, parts, i + 1)
         IN [ok |-> rest.ok, matched |-> <<segments[i].literal>> \o rest.matched]

NoMatch == [ok |-> FALSE, path |-> <<>>]

\* A slip in matchPath: an empty inbound path matches whatever the route is.
matchPath_emptyAlwaysRoot(segments, requestPath) ==
    LET trimmed == Trim(requestPath, Slash)
    IN IF trimmed = <<>> THEN [ok |-> TRUE, path |-> <<Slash>>]
       ELSE LET parts == Split(trimmed, Slash)
            IN IF Len(parts) # Len(segments) THEN NoMatch
               ELSE LET m == matchSegments(segments, parts, 1)
                    IN IF ~m.ok THEN NoMatch
                       ELSE [ok |-> TRUE,
                             path |-> <<Slash>> \o Join(m.matched, Slash)]

matchPath(segments, requestPath) ==
    LET trimmed == Trim(requestPath, Slash)
    IN IF trimmed = <<>>
       THEN IF Len(segments) = 0 THEN [ok |-> TRUE, path |-> <<Slash>>]
            ELSE NoMatch
       ELSE LET parts == Split(trimmed, Slash)
            IN IF Len(parts) # Len(segments) THEN NoMatch
               ELSE LET m == matchSegments(segments, parts, 1)
                    IN IF ~m.ok THEN NoMatch
                       ELSE IF Len(m.matched) = 0
                       THEN [ok |-> TRUE, path |-> <<Slash>>]
                       ELSE [ok |-> TRUE,
                             path |-> <<Slash>> \o Join(m.matched, Slash)]

----------------------------------------------------------------------------
(* service.go: the definition loader.                                      *)

\* A schema fragment (map[string]any); nil is the absent map.
NilSchema == [nil |-> TRUE, kv |-> {}]

StringSchema == [nil |-> FALSE, kv |-> {<<"type", "string">>}]

sPath == <<"p","a","t","h">>

sQuery == <<"q","u","e","r","y">>

\* Parameter, Endpoint, Service as the YAML decoder or the code builds them.
Parameter(name, in, required, description, schema) ==
    [Name |-> name, In |-> in, Required |-> required,
     Description |-> description, Schema |-> schema]

NilBody == [nil |-> TRUE, Description |-> <<>>, Required |-> FALSE, Content |-> EmptyMap]

Body(description, required, content) ==
    [nil |-> FALSE, Description |-> description, Required |-> required,
     Content |-> content]

Endpoint(path, method, description, operationID, parameters, requestBody) ==
    [Path |-> path, Method |-> method, Description |-> description,
     OperationID |-> operationID, Parameters |-> parameters,
     RequestBody |-> requestBody]

Service(name, address, description, endpoints, source) ==
    [Name |-> name, Address |-> address, Description |-> description,
     Endpoints |-> endpoints, Source |-> source]

Invalid == [ok |-> FALSE]

\* The body of the loop over ep.Parameters (service.go 111-136) for one
\* parameter; expected is the set of placeholder names of the path.
normalizeParameter(p, expected) ==
    LET name == TrimSpace(p.Name)
        inRaw == ToLower(TrimSpace(p.In))
        inValue == IF inRaw = <<>>
                   THEN (IF name \in expected THEN sPath ELSE sQuery)
                   ELSE inRaw
    IN IF name = <<>> THEN [ok |-> FALSE, param |-> p]
       ELSE [ok |-> TRUE,
             param |-> Parameter(name, inValue,
                                 IF inValue = sPath THEN TRUE ELSE p.Required,
                                 TrimSpace(p.Description),
                                 IF p.Schema.nil THEN StringSchema ELSE p.Schema)]

\* expectedParams after the loop: the placeholder names some parameter with
\* location path carries.
foundParams(params, expected) ==
    {n \in expected : \E i \in 1..Len(params) :
                          params[i].Name = n /\ params[i].In = sPath}

\* The parameters appended for the placeholders not found (service.go
\* 138-147), in the order the range over the map visits them.
synthesizedParams(order) ==
    [i \in 1..Len(order) |-> Parameter(order[i], sPath, TRUE, <<>>, StringSchema)]

normalizeRequestBody(rb) ==
    IF rb.nil THEN rb
    ELSE IF rb.Content = EmptyMap THEN NilBody
    ELSE [rb EXCEPT !.Description = TrimSpace(rb.Description)]

\* ep.Path after TrimSpace and the leading separator (service.go 87-93).
endpointPath(ep) ==
    LET path == TrimSpace(ep.Path)
    IN IF HasPrefix(path, Slash) THEN path ELSE <<Slash>> \o path

\* The keys of expectedParams (service.go 102-109).
expectedParams(ep) == Range(extractPathParamNames(endpointPath(ep)).names)

\* The keys of expectedParams still false after the loop over ep.Parameters.
missingParams(ep) ==
    expectedParams(ep) \
        foundParams([i \in 1..Len(ep.Parameters) |->
                        normalizeParameter(ep.Parameters[i], expectedParams(ep)).param],
                    expectedParams(ep))

\* The body of the loop over s.Endpoints (service.go 85-155) for one endpoint;
\* order is the order in which the range over expectedParams visits the
\* placeholders that were not found.
normalizeEndpoint(ep, order) ==
    LET method == ToUpper(TrimSpace(ep.Method))
        ps == [i \in 1..Len(ep.Parameters) |->
                  normalizeParameter(ep.Parameters[i], expectedParams(ep))]
    IN IF TrimSpace(ep.Path) = <<>> THEN [ok |-> FALSE, ep |-> ep]
       ELSE IF method = <<>> THEN [ok |-> FALSE, ep |-> ep]
       ELSE IF ~extractPathParamNames(endpointPath(ep)).ok
       THEN [ok |-> FALSE, ep |-> ep]
       ELSE IF \E i \in 1..Len(ps) : ~ps[i].ok THEN [ok |-> FALSE, ep |-> ep]
       ELSE [ok |-> TRUE,
             ep |-> Endpoint(endpointPath(ep), method, TrimSpace(ep.Description),
                             TrimSpace(ep.OperationID),
                             [i \in 1..Len(ps) |-> ps[i].param]
                                 \o synthesizedParams(order),
                             normalizeRequestBody(ep.RequestBody))]

\* The orders the code may take for the endpoints of a document: one order
\* of the missing placeholders per endpoint.
ParamOrders(raw) ==
    {o \in [1..Len(raw.Endpoints) ->
                UNION {Perms(missingParams(raw.Endpoints[i])) :
                           i \in 1..Len(raw.Endpoints)}] :
        \A i \in 1..Len(raw.Endpoints) :
            o[i] \in Perms(missingParams(raw.Endpoints[i]))}

normalizeAndValidate(raw, orders) ==
    LET name == TrimSpace(raw.Name)
        address == TrimSpace(raw.Address)
        eps == [i \in 1..Len(raw.Endpoints) |->
                   normalizeEndpoint(raw.Endpoints[i], orders[i])]
    IN IF name = <<>> THEN Invalid
       ELSE IF address = <<>> THEN Invalid
       ELSE IF Len(raw.Endpoints) = 0 THEN Invalid
       ELSE IF \E i \in 1..Len(eps) : ~eps[i].ok THEN Invalid
       ELSE [ok |-> TRUE,
             svc |-> Service(name, TrimRight(address, Slash),
                             TrimSpace(raw.Description),
                             [i \in 1..Len(eps) |-> eps[i].ep], raw.Source)]

\* LoadService: content is what the source holds when it is read: absent
\* (os.Stat fails), malformed (yaml.Unmarshal fails) or a decoded document.
LoadService(path, content, orders) ==
    IF content.kind # "yaml" THEN Invalid
    ELSE normalizeAndValidate([content.doc EXCEPT !.Source = path], orders)

----------------------------------------------------------------------------
(* gateway.go: the registry and its route index.                           *)

sGET == <<"G","E","T">>

sHEAD == <<"H","E","A","D">>

sPOST == <<"P","O","S","T">>

newRoute(svc, ep) ==
    LET p == parsePathSegments(ep.Path)
    IN [ok |-> p.ok,
        route |-> [service |-> svc, endpoint |-> ep, segments |-> p.segments]]

\* routes[method], the empty list when the map has no such key.
Bucket(rts, method) == IF method \in DOMAIN rts THEN rts[method] ELSE <<>>

\* The inner loop of rebuildRoutesLocked, from endpoint i of svc on.
RECURSIVE addEndpoints(_, _, _)
addEndpoints(rts, svc, i) ==
    IF i > Len(svc.Endpoints) THEN rts
    ELSE LET rt == newRoute(svc, svc.Endpoints[i])
             method == ToUpper(svc.Endpoints[i].Method)
         IN IF ~rt.ok THEN addEndpoints(rts, svc, i + 1)
            ELSE addEndpoints(MapPut(rts, method, Append(Bucket(rts, method), rt.route)),
                              svc, i + 1)

\* The outer loop of rebuildRoutesLocked, from the k-th service visited on.
RECURSIVE addServices(_, _, _, _)
addServices(rts, svcs, visit, k) ==
    IF k > Len(visit) THEN rts
    ELSE addServices(addEndpoints(rts, svcs[visit[k]], 1), svcs, visit, k + 1)

\* A slip in rebuildRoutesLocked: only the first endpoint of a service is
\* compiled.
rebuildRoutesLocked_firstEndpoint(svcs, order) ==
    LET visit == SelectSeq(order, LAMBDA n : n \in DOMAIN svcs)
        firstOnly == [n \in DOMAIN svcs |->
                         [svcs[n] EXCEPT !.Endpoints = SubSeq(svcs[n].Endpoints, 1, 1)]]
    IN addServices(EmptyMap, firstOnly, visit, 1)

\* rebuildRoutesLocked: order is the order in which the range over
\* g.services visits the names (the names not in the map are passed over).
rebuildRoutesLocked(svcs, order) ==
    addServices(EmptyMap, svcs, SelectSeq(order, LAMBDA n : n \in DOMAIN svcs), 1)

\* The registry fields of Gateway.
Registry(svcs, f2s, rts) ==
    [services |-> svcs, fileToService |-> f2s, routes |-> rts]

\* loadService 139-141: the stale name of a source whose declared name changed.
deleteStale(svcs, f2s, path, svc) ==
    IF path \in DOMAIN f2s /\ f2s[path] # svc.Name
    THEN MapDel(svcs, f2s[path])
    ELSE svcs

\* A slip in loadService: the stale name is left in the map.
loadService_keepStale(reg, path, parsed, order) ==
    IF ~parsed.ok THEN reg
    ELSE LET svcs == MapPut(reg.services, parsed.svc.Name, parsed.svc)
         IN Registry(svcs, MapPut(reg.fileToService, path, parsed.svc.Name),
                     rebuildRoutesLocked(svcs, order))

\* A slip in loadService: a source that fails to load is unloaded.
loadService_dropOnError(reg, path, parsed, order) ==
    IF ~parsed.ok
    THEN IF path \notin DOMAIN reg.fileToService THEN reg
         ELSE LET svcs == MapDel(reg.services, reg.fileToService[path])
              IN Registry(svcs, MapDel(reg.fileToService, path),
                          rebuildRoutesLocked(svcs, order))
    ELSE LET svcs == MapPut(deleteStale(reg.services, reg.fileToService,
                                        path, parsed.svc),
                            parsed.svc.Name, parsed.svc)
         IN Registry(svcs, MapPut(reg.fileToService, path, parsed.svc.Name),
                     rebuildRoutesLocked(svcs, order))

\* loadService, given the result of LoadService(path).
loadService(reg, path, parsed, order) ==
    IF ~parsed.ok THEN reg
    ELSE LET svcs == MapPut(deleteStale(reg.services, reg.fileToService,
                                        path, parsed.svc),
                            parsed.svc.Name, parsed.svc)
         IN Registry(svcs, MapPut(reg.fileToService, path, parsed.svc.Name),
                     rebuildRoutesLocked(svcs, order))

\* A slip in removeService: the route index is not rebuilt.
removeService_noRebuild(reg, path, order) ==
    IF path \notin DOMAIN reg.fileToService THEN reg
    ELSE Registry(MapDel(reg.services, reg.fileToService[path]),
                  MapDel(reg.fileToService, path), reg.routes)

removeService(reg, path, order) ==
    IF path \notin DOMAIN reg.fileToService THEN reg
    ELSE LET svcs == MapDel(reg.services, reg.fileToService[path])
         IN Registry(svcs, MapDel(reg.fileToService, path),
                     rebuildRoutesLocked(svcs, order))

NoRoute == [found |-> FALSE]

\* The loop of matchRoute over the candidates, from the i-th on.
RECURSIVE firstMatch(_, _, _)
firstMatch(candidates, requestPath, i) ==
    IF i > Len(candidates) THEN NoRoute
    ELSE LET m == matchPath(candidates[i].segments, requestPath)
         IN IF m.ok
            THEN [found |-> TRUE, route |-> candidates[i], targetPath |-> m.path]
            ELSE firstMatch(candidates, requestPath, i + 1)

\* A slip in matchRoute: a HEAD request is also tried on the GET routes
\* when HEAD routes exist.
candidateRoutes_headAlsoGet(rts, method) ==
    IF ToUpper(method) = sHEAD
    THEN Bucket(rts, sHEAD) \o Bucket(rts, sGET)
    ELSE Bucket(rts, ToUpper(method))

\* The bucket matchRoute searches: that of the method, or that of GET for a
\* HEAD request when the HEAD bucket is empty.
candidateRoutes(rts, method) ==
    IF Len(Bucket(rts, ToUpper(method))) = 0 /\ ToUpper(method) = sHEAD
    THEN Bucket(rts, sGET)
    ELSE Bucket(rts, ToUpper(method))

matchRoute(rts, method, requestPath) ==
    firstMatch(candidateRoutes(rts, method), requestPath, 1)

----------------------------------------------------------------------------
(* gateway.go: the headers of the outbound request.  A header name is a    *)
(* sequence of characters, a header value an opaque string.                *)

\* http.CanonicalHeaderKey: the first letter and every letter after a
\* hyphen in upper case, the other letters in lower case.
CanonicalHeaderKey(name) ==
    [i \in 1..Len(name) |->
        IF i = 1 \/ name[i - 1] = "-" THEN ToUpperChar(name[i])
        ELSE ToLowerChar(name[i])]

hopHeaders ==
    << <<"C","o","n","n","e","c","t","i","o","n">>,
       <<"K","e","e","p","-","A","l","i","v","e">>,
       <<"P","r","o","x","y","-","A","u","t","h","e","n","t","i","c","a","t","e">>,
       <<"P","r","o","x","y","-","A","u","t","h","o","r","i","z","a","t","i","o","n">>,
       <<"T","e">>,
       <<"T","r","a","i","l","e","r">>,
       <<"T","r","a","n","s","f","e","r","-","E","n","c","o","d","i","n","g">>,
       <<"U","p","g","r","a","d","e">> >>

XForwardedHost == <<"X","-","F","o","r","w","a","r","d","e","d","-","H","o","s","t">>

XForwardedProto == <<"X","-","F","o","r","w","a","r","d","e","d","-","P","r","o","t","o">>

\* A slip in isHopHeader: the name is compared as it was sent.
isHopHeader_exactCase(name) ==
    \E i \in 1..Len(hopHeaders) : hopHeaders[i] = name

isHopHeader(name) ==
    \E i \in 1..Len(hopHeaders) :
        CanonicalHeaderKey(hopHeaders[i]) = CanonicalHeaderKey(name)

\* http.Header: Add, Set, Get, Del on the canonical key.
headerAdd(h, key, value) ==
    MapPut(h, CanonicalHeaderKey(key),
           Append(IF CanonicalHeaderKey(key) \in DOMAIN h
                  THEN h[CanonicalHeaderKey(key)] ELSE <<>>, value))

headerSet(h, key, value) == MapPut(h, CanonicalHeaderKey(key), <<value>>)

headerGet(h, key) ==
    IF CanonicalHeaderKey(key) \in DOMAIN h /\ Len(h[CanonicalHeaderKey(key)]) > 0
    THEN h[CanonicalHeaderKey(key)][1]
    ELSE ""

headerDel(h, key) == MapDel(h, CanonicalHeaderKey(key))

\* copyHeaders 337-339: every value of one key is added.
RECURSIVE addValues(_, _, _, _)
addValues(dst, key, vals, i) ==
    IF i > Len(vals) THEN dst
    ELSE addValues(headerAdd(dst, key, vals[i]), key, vals, i + 1)

\* copyHeaders 333-340: the keys of src in the order the range visits them.
RECURSIVE copyKeys(_, _, _, _)
copyKeys(dst, src, order, i) ==
    IF i > Len(order) THEN dst
    ELSE IF isHopHeader(order[i]) THEN copyKeys(dst, src, order, i + 1)
    ELSE copyKeys(addValues(dst, order[i], src[order[i]], 1), src, order, i + 1)

\* copyHeaders 330-332: every key of dst is deleted.
RECURSIVE clearHeader(_, _)
clearHeader(dst, keys) ==
    IF keys = {} THEN dst
    ELSE LET k == CHOOSE x \in keys : TRUE
         IN clearHeader(headerDel(dst, k), keys \ {k})

copyHeaders(dst, src, order) ==
    copyKeys(clearHeader(dst, DOMAIN dst), src, order, 1)

\* ProxyRequest 229-241: the header of the outbound request for the inbound
\* request r; http.NewRequestWithContext starts it empty.
outboundHeader(r, order) ==
    LET copied == copyHeaders(EmptyMap, r.Header, order)
        proto == headerGet(r.Header, XForwardedProto)
    IN headerSet(headerSet(copied, XForwardedHost, r.Host),
                 XForwardedProto,
                 IF proto # "" THEN proto
                 ELSE IF r.TLS THEN "https" ELSE "http")

----------------------------------------------------------------------------
(* openapi.go: the description document.  A Go map is the function from    *)
(* its keys, a slice is a sequence, a key that is not set is not in the    *)
(* domain.                                                                 *)

\* The characters of the model in the order of their bytes.
Ascii == <<" ","-",".","/","0","1","2","3","4","5","6","7","8",
          "9",":","A","B","C","D","E","F","G","H","I","J","K",
          "L","M","N","O","P","Q","R","S","T","U","V","W","X",
          "Y","Z","_","a","b","c","d","e","f","g","h","i","j",
          "k","l","m","n","o","p","q","r","s","t","u","v","w",
          "x","y","z","{","}">>

Ord(c) == CHOOSE i \in 1..Len(Ascii) : Ascii[i] = c

\* s < t on strings: the order of sort.Strings, of the comparison in
\* convertParameters and of the keys encoding/json writes for a map.
Less(s, t) ==
    \E i \in 1..Len(t) :
        /\ i <= Len(s) + 1
        /\ \A j \in 1..(i - 1) : s[j] = t[j]
        /\ (i = Len(s) + 1 \/ Ord(s[i]) < Ord(t[i]))

\* One pass of the insertion sort that sort.Strings and sort.Slice run on a
\* slice of at most 12 elements: x moves left past every greater element.
RECURSIVE insertString(_, _)
insertString(sorted, x) ==
    IF sorted = <<>> \/ ~Less(x, sorted[Len(sorted)]) THEN Append(sorted, x)
    ELSE Append(insertString(SubSeq(sorted, 1, Len(sorted) - 1), x),
                sorted[Len(sorted)])

RECURSIVE sortStringsUpTo(_, _)
sortStringsUpTo(names, n) ==
    IF n = 0 THEN <<>>
    ELSE insertString(sortStringsUpTo(names, n - 1), names[n])

\* The names are written in the order the range collected them.
sortStrings_asCollected(names) == names

\* sort.Strings(serviceNames)
sortStrings(names) == sortStringsUpTo(names, Len(names))

\* The less function of convertParameters: by location, then by name.
lessParameter(p, q) ==
    IF p.In = q.In THEN Less(p.Name, q.Name) ELSE Less(p.In, q.In)

RECURSIVE insertParameter(_, _)
insertParameter(sorted, x) ==
    IF sorted = <<>> \/ ~lessParameter(x, sorted[Len(sorted)]) THEN Append(sorted, x)
    ELSE Append(insertParameter(SubSeq(sorted, 1, Len(sorted) - 1), x),
                sorted[Len(sorted)])

RECURSIVE sortParametersUpTo(_, _)
sortParametersUpTo(params, n) ==
    IF n = 0 THEN <<>>
    ELSE insertParameter(sortParametersUpTo(params, n - 1), params[n])

\* sort.Slice(sorted, ...) in convertParameters
sortParameters(params) == sortParametersUpTo(params, Len(params))

\* strings.ReplaceAll(s, old, new), old not empty.
RECURSIVE ReplaceAll(_, _, _)
ReplaceAll(s, old, new) ==
    IF Len(s) < Len(old) THEN s
    ELSE IF SubSeq(s, 1, Len(old)) = old
    THEN new \o ReplaceAll(SubSeq(s, Len(old) + 1, Len(s)), old, new)
    ELSE <<s[1]>> \o ReplaceAll(Tail(s), old, new)

\* strings.Join(parts, sep) for a separator of any length.
RECURSIVE JoinString(_, _)
JoinString(parts, sep) ==
    IF parts = <<>> THEN <<>>
    ELSE IF Len(parts) = 1 THEN parts[1]
    ELSE parts[1] \o sep \o JoinString(Tail(parts), sep)

generateOperationID(serviceName, method, path) ==
    LET s1 == ReplaceAll(path, <<"/">>, <<"_">>)
        s2 == ReplaceAll(s1, <<"{">>, <<>>)
        s3 == ReplaceAll(s2, <<"}">>, <<>>)
        s4 == ReplaceAll(s3, <<"-">>, <<"_">>)
        s5 == ReplaceAll(s4, <<" ">>, <<"_">>)
        s6 == ReplaceAll(s5, <<".">>, <<"_">>)
        s7 == ReplaceAll(s6, <<"_","_">>, <<"_">>)
        sanitized == IF Trim(s7, "_") = <<>> THEN <<"r","o","o","t">> ELSE Trim(s7, "_")
    IN serviceName \o <<"_">> \o method \o <<"_">> \o sanitized

buildOperationDescription(svc, ep) ==
    JoinString(
        (IF ep.Description # <<>> THEN <<ep.Description>> ELSE <<>>)
        \o (IF svc.Description # <<>>
            THEN <<<<"S","e","r","v","i","c","e"," ","d","e","s","c","r","i","p","t","i","o","n",":"," ">> \o svc.Description>>
            ELSE <<>>)
        \o <<<<"R","e","q","u","e","s","t","s"," ","a","r","e"," ","p","r","o","x","i","e","d"," ","t","o"," ">> \o svc.Address \o ep.Path>>,
        <<"\n", "\n">>)

\* The item convertParameters writes for one parameter.
parameterItem(p) ==
    LET item == [name |-> p.Name, in |-> p.In, required |-> p.Required]
        described == IF p.Description # <<>>
                     THEN MapPut(item, "description", p.Description) ELSE item
    IN IF p.Schema.kv # {} THEN MapPut(described, "schema", p.Schema.kv)
       ELSE described

convertParameters(params) ==
    LET sorted == sortParameters(params)
    IN [i \in 1..Len(sorted) |-> parameterItem(sorted[i])]

\* A value that may be nil, and a MediaTypeDefinition.
Nil == [nil |-> TRUE]

NotNil(v) == [nil |-> FALSE, value |-> v]

MediaTypeDefinition(schema, example) == [Schema |-> schema, Example |-> example]

\* The entry convertRequestBody writes for one media type.
mediaItem(def) ==
    LET withSchema == IF ~def.Schema.nil THEN MapPut(EmptyMap, "schema", def.Schema.kv)
                      ELSE EmptyMap
    IN IF ~def.Example.nil THEN MapPut(withSchema, "example", def.Example.value)
       ELSE withSchema

\* convertRequestBody; Nil stands for the nil map it returns.
convertRequestBody(rb) ==
    LET kept == {mt \in DOMAIN rb.Content :
                    ~(rb.Content[mt].Schema.nil /\ rb.Content[mt].Example.nil)}
        content == [mt \in kept |-> mediaItem(rb.Content[mt])]
        body == MapPut(EmptyMap, "content", content)
        described == IF rb.Description # <<>>
                     THEN MapPut(body, "description", rb.Description) ELSE body
    IN IF rb.nil THEN Nil
       ELSE IF kept = {} THEN Nil
       ELSE NotNil(IF rb.Required THEN MapPut(described, "required", TRUE)
                   ELSE described)

\* The operation BuildOpenAPISpec writes for one endpoint; method is the
\* method in lower case.
operation(svc, ep, method) ==
    LET summary == IF ep.Description # <<>> THEN ep.Description
                   ELSE ToUpper(method) \o <<" ">> \o ep.Path
        operationID == IF ep.OperationID # <<>> THEN ep.OperationID
                       ELSE generateOperationID(svc.Name, method, ep.Path)
        op1 == [summary |-> summary,
                description |-> buildOperationDescription(svc, ep),
                tags |-> <<svc.Name>>,
                responses |-> {"200", "default"},
                operationId |-> operationID]
        op2 == MapPut(MapPut(op1, "x-service-name", svc.Name),
                      "x-service-address", svc.Address)
        op3 == IF Len(ep.Parameters) > 0
               THEN MapPut(op2, "parameters", convertParameters(ep.Parameters))
               ELSE op2
        body == convertRequestBody(ep.RequestBody)
    IN IF ~body.nil THEN MapPut(op3, "requestBody", body.value) ELSE op3

\* The loop over svc.Endpoints from the i-th endpoint on.
RECURSIVE addOperations(_, _, _)
addOperations(paths, svc, i) ==
    IF i > Len(svc.Endpoints) THEN paths
    ELSE LET ep == svc.Endpoints[i]
             method == ToLower(ep.Method)
             pathItem == IF ep.Path \in DOMAIN paths THEN paths[ep.Path] ELSE EmptyMap
         IN IF method = <<>> THEN addOperations(paths, svc, i + 1)
            ELSE addOperations(
                     MapPut(paths, ep.Path,
                            MapPut(pathItem, method, operation(svc, ep, method))),
                     svc, i + 1)

\* The loop over serviceNames from the k-th name on.
RECURSIVE addServiceOperations(_, _, _, _)
addServiceOperations(paths, svcs, serviceNames, k) ==
    IF k > Len(serviceNames) THEN paths
    ELSE addServiceOperations(addOperations(paths, svcs[serviceNames[k]], 1),
                              svcs, serviceNames, k + 1)

\* The tag of one service.
tagOf(svc) ==
    IF svc.Description # <<>>
    THEN [name |-> svc.Name, description |-> svc.Description]
    ELSE [name |-> svc.Name]

\* The value BuildOpenAPISpec hands to the encoder; tagOrder and pathOrder
\* are the orders in which its two ranges over g.services collect the names.
openAPIDocument(svcs, baseURL, tagOrder, pathOrder) ==
    LET spec == [openapi |-> "3.1.0",
                 info |-> [title |-> "Local ChatGPT Gateway", version |-> "1.0.0"],
                 servers |-> <<[url |-> baseURL]>>,
                 paths |-> addServiceOperations(EmptyMap, svcs,
                                                sortStrings(pathOrder), 1)]
    IN IF Cardinality(DOMAIN svcs) > 0
       THEN MapPut(spec, "tags",
                   [i \in 1..Len(tagOrder) |-> tagOf(svcs[sortStrings(tagOrder)[i]])])
       ELSE spec

\* The keys of a map in the order encoding/json writes them.
sortedKeys(m) ==
    CHOOSE keys \in Perms(DOMAIN m) :
        \A i \in 1..Len(keys), j \in 1..Len(keys) : i < j => Less(keys[i], keys[j])

\* json.MarshalIndent on a map with string keys: the entries by sorted key.
marshalMap(m) ==
    LET keys == sortedKeys(m)
    IN [i \in 1..Len(keys) |-> <<keys[i], m[keys[i]]>>]

\* BuildOpenAPISpec: the document as it is written, the path entries and
\* the operations of each path in the order of their keys.
BuildOpenAPISpec(svcs, baseURL, tagOrder, pathOrder) ==
    LET spec == openAPIDocument(svcs, baseURL, tagOrder, pathOrder)
        paths == [path \in DOMAIN spec.paths |-> marshalMap(spec.paths[path])]
    IN [spec EXCEPT !.paths = marshalMap(paths)]

----------------------------------------------------------------------------
(* Values shared by the specifications.                                    *)

NoOp == [op |-> "none"]

\* g.mu with no holder.
Unlocked == [writer |-> "none", readers |-> {}]

NotTracking == [active |-> FALSE]

\* The registry as New leaves it, with no task running.
InitRegistry ==
    /\ services = EmptyMap
    /\ fileToService = EmptyMap
    /\ routes = EmptyMap
    /\ mu = Unlocked
    /\ pc = EmptyMap
    /\ lastOp = NoOp
    /\ gone = NotTracking

registryVars == <<services, fileToService, routes, mu, pc, lastOp, gone>>

----------------------------------------------------------------------------
(* Spec: the registry under loadService, removeService and the route       *)
(* lookup of ProxyRequest, each handler one step (the handlers that write  *)
(* hold g.mu for their whole update, the lookup holds it for reading).     *)

Sources == {"a.yaml", "b.yaml"}

\* serviceName " w", serviceAddress "h1/", GET /w/{c} with no parameters.
DocWeather ==
    Service(<<" ","w">>, <<"h","1","/">>, <<>>,
            <<Endpoint(<<"/","w","/","{","c","}">>, sGET, <<>>, <<>>, <<>>, NilBody)>>,
            "")

\* serviceName "t", GET /t and post t.
DocTodo ==
    Service(<<"t">>, <<"h","2">>, <<>>,
            <<Endpoint(<<"/","t">>, sGET, <<>>, <<>>, <<>>, NilBody),
              Endpoint(<<"t">>, <<"p","o","s","t">>, <<>>, <<>>, <<>>, NilBody)>>,
            "")

\* serviceName "v", GET /{c}/{d} with no parameters declared.
DocPairs ==
    Service(<<"v">>, <<"h","3">>, <<>>,
            <<Endpoint(<<"/","{","c","}","/","{","d","}">>, sGET, <<>>, <<>>, <<>>,
                       NilBody)>>,
            "")

\* serviceName "w" again, HEAD /w/{c}.
DocHead ==
    Service(<<"w">>, <<"h","4">>, <<>>,
            <<Endpoint(<<"/","w","/","{","c","}">>, sHEAD, <<>>, <<>>, <<>>, NilBody)>>,
            "")

\* A document without endpoints: normalizeAndValidate rejects it.
DocEmpty == Service(<<"x">>, <<"h">>, <<>>, <<>>, "")

Docs == {DocWeather, DocTodo, DocPairs, DocHead, DocEmpty}

Contents ==
    {[kind |-> k, doc |-> DocEmpty] : k \in {"absent", "malformed"}}
    \cup {[kind |-> "yaml", doc |-> d] : d \in Docs}

RequestMethods == {sGET, sHEAD, sPOST, <<"g","e","t">>}

\* "/w/P", "/t", "/"
RequestPaths == { <<"/","w","/","P">>, <<"/","t">>, <<"/">> }

Reg == Registry(services, fileToService, routes)

\* The names of the services that own a route of the list matching the path.
Owners(candidates, requestPath) ==
    {candidates[i].service.Name : i \in
        {j \in 1..Len(candidates) : matchPath(candidates[j].segments, requestPath).ok}}

\* The names of the services that own a route matching the path in any bucket.
OwnersAnyMethod(rts, requestPath) ==
    UNION {Owners(rts[m], requestPath) : m \in DOMAIN rts}

\* The request paths an endpoint of svc matches.
PathsServed(svc) ==
    {q \in RequestPaths : \E i \in 1..Len(svc.Endpoints) :
        /\ newRoute(svc, svc.Endpoints[i]).ok
        /\ matchPath(newRoute(svc, svc.Endpoints[i]).route.segments, q).ok}

\* gone after a load: tracking ends when the tracked source is loaded again;
\* the paths a service loaded from another source serves are noted.
GoneAfterLoad(path, parsed) ==
    IF ~gone.active \/ ~parsed.ok THEN gone
    ELSE IF gone.path = path THEN NotTracking
    ELSE [gone EXCEPT !.covered = @ \cup PathsServed(parsed.svc)]

\* What LoadService(path) can return, over the contents the source may hold
\* and the orders normalizeAndValidate may take.
LoadResults ==
    [path \in Sources |->
        UNION {{LoadService(path, content, orders) :
                   orders \in (IF content.kind = "yaml" THEN ParamOrders(content.doc)
                               ELSE {<<>>})} :
               content \in Contents}]

\* The orders in which a range over the map svcs may visit its keys.
VisitOrders(svcs) == Perms(DOMAIN svcs)

\* The services map loadService leaves, which rebuildRoutesLocked ranges over.
servicesAfterLoad(reg, path, parsed) ==
    IF ~parsed.ok THEN reg.services
    ELSE MapPut(deleteStale(reg.services, reg.fileToService, path, parsed.svc),
                parsed.svc.Name, parsed.svc)

Load(path) ==
    \E parsed \in LoadResults[path] :
        \E order \in VisitOrders(servicesAfterLoad(Reg, path, parsed)) :
            LET reg == loadService(Reg, path, parsed, order)
            IN /\ services' = reg.services
               /\ fileToService' = reg.fileToService
               /\ routes' = reg.routes
               /\ lastOp' = IF parsed.ok
                            THEN [op |-> "load", path |-> path, ok |-> TRUE,
                                  name |-> parsed.svc.Name,
                                  oldName |-> IF path \in DOMAIN fileToService
                                              THEN fileToService[path] ELSE <<>>]
                            ELSE [op |-> "load", path |-> path, ok |-> FALSE,
                                  before |-> Reg]
               /\ gone' = GoneAfterLoad(path, parsed)
               /\ UNCHANGED <<mu, pc, arg, res>>

\* The requests that match only routes of the service called name; exclusive
\* says that no other service matches the path under any method.
RequestsOnlyOf(name) ==
    {[method |-> m, path |-> q,
      exclusive |-> OwnersAnyMethod(routes, q) = {name}] :
        m \in RequestMethods,
        q \in {y \in RequestPaths :
                  \E x \in RequestMethods :
                      Owners(candidateRoutes(routes, x), y) = {name}}}
    \cap {r \in [method : RequestMethods, path : RequestPaths, exclusive : BOOLEAN] :
             Owners(candidateRoutes(routes, r.method), r.path) = {name}}

\* The services map removeService leaves.
servicesAfterRemove(reg, path) ==
    IF path \notin DOMAIN reg.fileToService THEN reg.services
    ELSE MapDel(reg.services, reg.fileToService[path])

Remove(path) ==
    \E order \in VisitOrders(servicesAfterRemove(Reg, path)), track \in BOOLEAN :
        LET reg == removeService(Reg, path, order)
            found == path \in DOMAIN fileToService
        IN /\ services' = reg.services
           /\ fileToService' = reg.fileToService
           /\ routes' = reg.routes
           /\ lastOp' = [op |-> "remove", path |-> path, found |-> found,
                         name |-> IF found THEN fileToService[path] ELSE <<>>]
           /\ gone' = IF found /\ track
                      THEN [active |-> TRUE, path |-> path,
                            reqs |-> RequestsOnlyOf(fileToService[path]),
                            covered |-> {}]
                      ELSE gone
           /\ UNCHANGED <<mu, pc, arg, res>>

\* ProxyRequest up to the choice of the backend: the route lookup, the
\* ErrNoMatchingRoute return and the service and path the request goes to.
ProxyRequest(method, requestPath) ==
    LET m == matchRoute(routes, method, requestPath)
    IN /\ lastOp' = IF m.found
                    THEN [op |-> "proxy", method |-> method, path |-> requestPath,
                          err |-> "nil", service |-> m.route.service.Name,
                          targetPath |-> m.targetPath]
                    ELSE [op |-> "proxy", method |-> method, path |-> requestPath,
                          err |-> "ErrNoMatchingRoute"]
       /\ UNCHANGED <<services, fileToService, routes, gone, mu, pc, arg, res>>

Init ==
    /\ InitRegistry
    /\ arg = <<>>
    /\ res = <<>>

Next ==
    \/ \E path \in Sources : Load(path)
    \/ \E path \in Sources : Remove(path)
    \/ \E method \in RequestMethods, requestPath \in RequestPaths :
          ProxyRequest(method, requestPath)

Spec == Init /\ [][Next]_vars

\* All routes of the index, whatever their bucket.
AllRoutes == UNION {Range(routes[m]) : m \in DOMAIN routes}

\* C1: the route index is the index of the current service set: every route
\* is in the bucket of its endpoint's method and is owned by a service that
\* is in the services map under its own name, and every endpoint of every
\* service has exactly one route in the bucket of its upper-cased method.
C1_RoutesMatchServices ==
    /\ \A m \in DOMAIN routes : \A i \in 1..Len(routes[m]) :
          /\ routes[m][i].service.Name \in DOMAIN services
          /\ services[routes[m][i].service.Name] = routes[m][i].service
          /\ ToUpper(routes[m][i].endpoint.Method) = m
          /\ \E k \in 1..Len(routes[m][i].service.Endpoints) :
                routes[m][i].service.Endpoints[k] = routes[m][i].endpoint
    /\ \A n \in DOMAIN services : \A k \in 1..Len(services[n].Endpoints) :
          Cardinality({i \in 1..Len(Bucket(routes, ToUpper(services[n].Endpoints[k].Method))) :
              /\ Bucket(routes, ToUpper(services[n].Endpoints[k].Method))[i].service
                    = services[n]
              /\ Bucket(routes, ToUpper(services[n].Endpoints[k].Method))[i].endpoint
                    = services[n].Endpoints[k]}) = 1

C1_Witness ==
    /\ lastOp.op = "remove" /\ lastOp.found
    /\ Cardinality(DOMAIN services) = 1
    /\ \E n \in DOMAIN services : Len(services[n].Endpoints) = 2
    /\ Cardinality(AllRoutes) = 2

\* C3: when a source loaded under one name is loaded again under another
\* name, then once loadService has committed the old name is absent, the new
\* name is present, the source maps to the new name, no route is owned by
\* the old service, and exactly one service comes from the source.
C3_RenameLeavesOneService ==
    (lastOp.op = "load" /\ lastOp.ok /\ lastOp.oldName # <<>>
        /\ lastOp.oldName # lastOp.name) =>
        /\ lastOp.oldName \notin DOMAIN services
        /\ lastOp.name \in DOMAIN services
        /\ fileToService[lastOp.path] = lastOp.name
        /\ \A rt \in AllRoutes : rt.service.Name # lastOp.oldName
        /\ Cardinality({n \in DOMAIN services :
                           services[n].Source = lastOp.path}) = 1

C3_Witness ==
    /\ lastOp.op = "load" /\ lastOp.ok
    /\ lastOp.oldName = <<"w">> /\ lastOp.name = <<"t">>
    /\ Cardinality(DOMAIN services) = 2

\* C4 as claimed: after removeService for a source with a loaded service no
\* route is owned by that service, and every later request that matched only
\* that service's endpoints yields ErrNoMatchingRoute until the source is
\* loaded again.
C4_RemovedStayUnrouted ==
    /\ (lastOp.op = "remove" /\ lastOp.found) =>
          \A rt \in AllRoutes : rt.service.Name # lastOp.name
    /\ (lastOp.op = "proxy" /\ gone.active
          /\ \E r \in gone.reqs : r.method = lastOp.method /\ r.path = lastOp.path) =>
          lastOp.err = "ErrNoMatchingRoute"

\* C4 as amended: after removeService for a source with a loaded service no
\* route is owned by that service, and every later request whose path
\* matched only that service's endpoints, under any method, yields
\* ErrNoMatchingRoute until that source is loaded again or a service with an
\* endpoint matching the path is loaded from another source.
C4_RemovedStayUnroutedUntilServed ==
    /\ (lastOp.op = "remove" /\ lastOp.found) =>
          \A rt \in AllRoutes : rt.service.Name # lastOp.name
    /\ (lastOp.op = "proxy" /\ gone.active /\ lastOp.path \notin gone.covered
          /\ \E r \in gone.reqs :
                r.method = lastOp.method /\ r.path = lastOp.path /\ r.exclusive) =>
          lastOp.err = "ErrNoMatchingRoute"

C4_Witness ==
    /\ lastOp.op = "proxy" /\ gone.active /\ lastOp.path \notin gone.covered
    /\ \E r \in gone.reqs :
          r.method = lastOp.method /\ r.path = lastOp.path /\ r.exclusive
    /\ DOMAIN services # {}
    /\ lastOp.err = "ErrNoMatchingRoute"

\* C10: a loadService whose source fails to parse or validate leaves the
\* services map, the source-to-name map and the route index as they were,
\* also when the source had been loaded before.
C10_FailedLoadChangesNothing ==
    (lastOp.op = "load" /\ ~lastOp.ok) => Reg = lastOp.before

C10_Witness ==
    /\ lastOp.op = "load" /\ ~lastOp.ok
    /\ lastOp.path \in DOMAIN fileToService
    /\ fileToService[lastOp.path] \in DOMAIN services
    /\ services[fileToService[lastOp.path]].Source = lastOp.path
    /\ AllRoutes # {}

----------------------------------------------------------------------------
(* SpecLock: the same handlers statement by statement, run by concurrent    *)
(* tasks under g.mu.  A task that calls Lock or RLock waits until the       *)
(* lock can be taken.                                                       *)

Writers == {"w1", "w2"}

Readers == {"r1", "r2"}

Tasks == Writers \cup Readers

\* The contents a source holds in SpecLock.
LockContents ==
    {[kind |-> "absent", doc |-> DocEmpty]}
    \cup {[kind |-> "yaml", doc |-> d] : d \in {DocWeather, DocTodo, DocHead}}

LockLoadResults ==
    [path \in Sources |->
        UNION {{LoadService(path, content, orders) :
                   orders \in (IF content.kind = "yaml" THEN ParamOrders(content.doc)
                               ELSE {<<>>})} :
               content \in LockContents}]

Idle == [at |-> "idle"]

\* A slip in the use of g.mu: the writer takes the lock as a reader would.
CanLock_asReader(m) == m.writer = "none"

\* sync.RWMutex: Lock returns when no task holds the lock.
CanLock(m) == m.writer = "none" /\ m.readers = {}

\* sync.RWMutex: RLock returns when no writer holds the lock.
CanRLock(m) == m.writer = "none"

Goto(t, next) == pc' = [pc EXCEPT ![t] = next]

At(t, label) == pc[t].at = label

\* loadService 130-134: LoadService outside the lock, return on error.
LoadParse(t, path) ==
    /\ At(t, "idle")
    /\ \E parsed \in LockLoadResults[path] :
          Goto(t, IF parsed.ok
                  THEN [at |-> "load_lock", path |-> path, svc |-> parsed.svc]
                  ELSE Idle)
    /\ UNCHANGED <<services, fileToService, routes, mu, lastOp, gone, arg, res>>

\* loadService 136: g.mu.Lock()
LoadLock(t) ==
    /\ At(t, "load_lock")
    /\ CanLock(mu)
    /\ mu' = [mu EXCEPT !.writer = t]
    /\ Goto(t, [pc[t] EXCEPT !.at = "load_stale"])
    /\ UNCHANGED <<services, fileToService, routes, lastOp, gone, arg, res>>

\* loadService 139-141
LoadDeleteStale(t) ==
    /\ At(t, "load_stale")
    /\ services' = deleteStale(services, fileToService, pc[t].path, pc[t].svc)
    /\ Goto(t, [pc[t] EXCEPT !.at = "load_put"])
    /\ UNCHANGED <<fileToService, routes, mu, lastOp, gone, arg, res>>

\* loadService 142
LoadPut(t) ==
    /\ At(t, "load_put")
    /\ services' = MapPut(services, pc[t].svc.Name, pc[t].svc)
    /\ Goto(t, [pc[t] EXCEPT !.at = "load_map"])
    /\ UNCHANGED <<fileToService, routes, mu, lastOp, gone, arg, res>>

\* loadService 143
LoadMap(t) ==
    /\ At(t, "load_map")
    /\ fileToService' = MapPut(fileToService, pc[t].path, pc[t].svc.Name)
    /\ Goto(t, [pc[t] EXCEPT !.at = "rebuild"])
    /\ UNCHANGED <<services, routes, mu, lastOp, gone, arg, res>>

\* loadService 144 and removeService 159: g.rebuildRoutesLocked()
Rebuild(t) ==
    /\ At(t, "rebuild")
    /\ \E order \in VisitOrders(services) :
          routes' = rebuildRoutesLocked(services, order)
    /\ Goto(t, [at |-> "unlock"])
    /\ UNCHANGED <<services, fileToService, mu, lastOp, gone, arg, res>>

\* The deferred g.mu.Unlock() of loadService and removeService.
Unlock(t) ==
    /\ At(t, "unlock")
    /\ mu' = [mu EXCEPT !.writer = "none"]
    /\ Goto(t, Idle)
    /\ UNCHANGED <<services, fileToService, routes, lastOp, gone, arg, res>>

\* removeService 150: g.mu.Lock()
RemoveLock(t, path) ==
    /\ At(t, "idle")
    /\ CanLock(mu)
    /\ mu' = [mu EXCEPT !.writer = t]
    /\ Goto(t, [at |-> "remove_lookup", path |-> path])
    /\ UNCHANGED <<services, fileToService, routes, lastOp, gone, arg, res>>

\* removeService 153-156
RemoveLookup(t) ==
    /\ At(t, "remove_lookup")
    /\ Goto(t, IF pc[t].path \in DOMAIN fileToService
               THEN [at |-> "remove_unmap", path |-> pc[t].path,
                     name |-> fileToService[pc[t].path]]
               ELSE [at |-> "unlock"])
    /\ UNCHANGED <<services, fileToService, routes, mu, lastOp, gone, arg, res>>

\* removeService 157
RemoveUnmap(t) ==
    /\ At(t, "remove_unmap")
    /\ fileToService' = MapDel(fileToService, pc[t].path)
    /\ Goto(t, [pc[t] EXCEPT !.at = "remove_delete"])
    /\ UNCHANGED <<services, routes, mu, lastOp, gone, arg, res>>

\* removeService 158
RemoveDelete(t) ==
    /\ At(t, "remove_delete")
    /\ services' = MapDel(services, pc[t].name)
    /\ Goto(t, [at |-> "rebuild"])
    /\ UNCHANGED <<fileToService, routes, mu, lastOp, gone, arg, res>>

\* A route of the index whose service is not in the services map.
StaleRoute ==
    \E m \in DOMAIN routes : \E i \in 1..Len(routes[m]) :
        \/ routes[m][i].service.Name \notin DOMAIN services
        \/ services[routes[m][i].service.Name] # routes[m][i].service

\* A service of the map with an endpoint that has no route.
MissingRoute ==
    \E n \in DOMAIN services : \E k \in 1..Len(services[n].Endpoints) :
        \A i \in 1..Len(Bucket(routes, ToUpper(services[n].Endpoints[k].Method))) :
            \/ Bucket(routes, ToUpper(services[n].Endpoints[k].Method))[i].service
                  # services[n]
            \/ Bucket(routes, ToUpper(services[n].Endpoints[k].Method))[i].endpoint
                  # services[n].Endpoints[k]

\* matchRoute 199, ServicesSnapshot 304, BuildOpenAPISpec 223: g.mu.RLock()
ReadLock(t, op) ==
    /\ At(t, "idle")
    /\ CanRLock(mu)
    /\ mu' = [mu EXCEPT !.readers = @ \cup {t}]
    /\ Goto(t, [at |-> "reading", op |-> op])
    /\ UNCHANGED <<services, fileToService, routes, lastOp, gone, arg, res>>

\* The body of the reader: it reads g.routes and g.services; what it sees
\* is noted.
Read(t) ==
    /\ At(t, "reading")
    /\ Goto(t, [at |-> "read", op |-> pc[t].op,
                stale |-> StaleRoute, missing |-> MissingRoute])
    /\ UNCHANGED <<services, fileToService, routes, mu, lastOp, gone, arg, res>>

\* The deferred g.mu.RUnlock()
ReadUnlock(t) ==
    /\ At(t, "read")
    /\ mu' = [mu EXCEPT !.readers = @ \ {t}]
    /\ Goto(t, Idle)
    /\ UNCHANGED <<services, fileToService, routes, lastOp, gone, arg, res>>

InitLock ==
    /\ services = EmptyMap
    /\ fileToService = EmptyMap
    /\ routes = EmptyMap
    /\ mu = Unlocked
    /\ pc = [t \in Tasks |-> Idle]
    /\ lastOp = NoOp
    /\ gone = NotTracking
    /\ arg = <<>>
    /\ res = <<>>

NextLock ==
    \/ \E t \in Writers, path \in Sources : LoadParse(t, path)
    \/ \E t \in Writers : LoadLock(t)
    \/ \E t \in Writers : LoadDeleteStale(t)
    \/ \E t \in Writers : LoadPut(t)
    \/ \E t \in Writers : LoadMap(t)
    \/ \E t \in Writers : Rebuild(t)
    \/ \E t \in Writers : Unlock(t)
    \/ \E t \in Writers, path \in Sources : RemoveLock(t, path)
    \/ \E t \in Writers : RemoveLookup(t)
    \/ \E t \in Writers : RemoveUnmap(t)
    \/ \E t \in Writers : RemoveDelete(t)
    \/ \E t \in Readers, op \in {"matchRoute", "ServicesSnapshot", "BuildOpenAPISpec"} :
          ReadLock(t, op)
    \/ \E t \in Readers : Read(t)
    \/ \E t \in Readers : ReadUnlock(t)

SpecLock == InitLock /\ [][NextLock]_vars

\* The tasks between Lock and Unlock, and between RLock and RUnlock.
WritersInside ==
    {t \in Writers : pc[t].at \in {"load_stale", "load_put", "load_map", "rebuild",
                                   "unlock", "remove_lookup", "remove_unmap",
                                   "remove_delete"}}

ReadersInside == {t \in Readers : pc[t].at \in {"reading", "read"}}

\* C2: at most one writer is in its critical section at a time, no reader is
\* in its critical section while a writer is, and no reader sees a route
\* owned by a service that is absent from the services map, or a service
\* whose endpoints are not in the route index.
C2_ReadersSeeRebuiltIndex ==
    /\ Cardinality(WritersInside) <= 1
    /\ WritersInside # {} => ReadersInside = {}
    /\ ReadersInside # {} => (~StaleRoute /\ ~MissingRoute)
    /\ \A t \in Readers : At(t, "read") => (~pc[t].stale /\ ~pc[t].missing)

\* Two readers inside together, after a service was loaded, while a writer
\* waits for the lock with a service of another name for the same source.
C2_Witness ==
    /\ ReadersInside = Readers
    /\ \E t \in Readers : At(t, "read")
    /\ AllRoutes # {}
    /\ \E w \in Writers :
          /\ At(w, "load_lock")
          /\ pc[w].path \in DOMAIN fileToService
          /\ fileToService[pc[w].path] # pc[w].svc.Name

\* The window the lock hides: a writer inside with the index not rebuilt.
WriterWindow == WritersInside # {} /\ StaleRoute

----------------------------------------------------------------------------
(* SpecMatch: route.matchPath applied to a compiled template and an        *)
(* inbound path.                                                           *)

MaxPathLen == 6

PathAlphabet == {"/", "w", "P"}

\* "/", "//", "/w", "/w/", "/W", "/{c}", "/w/{c}", "/W/{c}", "/{c}/w",
\* "/w/w", "/w/{c}/w", and "/w//w", "/{}", "w/{c}", "/w{c}", which do not compile.
Templates ==
    { <<"/">>, <<"/","/">>, <<"/","w">>, <<"/","w","/">>, <<"/","W">>,
      <<"/","{","c","}">>,
      <<"/","w","/","{","c","}">>, <<"/","W","/","{","c","}">>,
      <<"/","{","c","}","/","w">>, <<"/","w","/","w">>,
      <<"/","w","/","{","c","}","/","w">>,
      <<"/","w","/","/","w">>, <<"/","{","}">>, <<"w","/","{","c","}">>,
      <<"/","w","{","c","}">> }

InitMatch ==
    /\ InitRegistry
    /\ arg \in [template : {t \in Templates : parsePathSegments(t).ok},
                 path : SeqsUpTo(PathAlphabet, MaxPathLen)]
    /\ res = <<>>

\* newRoute(svc, ep) followed by rt.matchPath(requestPath)
MatchPath ==
    /\ res = <<>>
    /\ res' = <<matchPath(parsePathSegments(arg.template).segments, arg.path)>>
    /\ UNCHANGED <<registryVars, arg>>

NextMatch == MatchPath

SpecMatch == InitMatch /\ [][NextMatch]_vars

\* The inbound path as the claims describe it: trimmed of leading and
\* trailing separators, then split; the empty path has no segments.
InboundSegments(path) ==
    LET t == Trim(path, Slash)
    IN IF t = <<>> THEN <<>> ELSE Split(t, Slash)

TemplateSegments == parsePathSegments(arg.template).segments

\* C5: matchPath succeeds if and only if the inbound path has as many
\* segments as the template and every literal template segment equals the
\* inbound segment at its position, case-sensitively; /w/{c} matches /w/P
\* and matches neither /w nor /w/P/P.
C5_MatchIffSameShape ==
    res # <<>> =>
        /\ res[1].ok <=>
              /\ Len(InboundSegments(arg.path)) = Len(TemplateSegments)
              /\ \A i \in 1..Len(TemplateSegments) :
                     ~TemplateSegments[i].isParam =>
                        TemplateSegments[i].literal = InboundSegments(arg.path)[i]
        /\ arg.template = <<"/","w","/","{","c","}">> =>
              /\ arg.path = <<"/","w","/","P">> => res[1].ok
              /\ arg.path = <<"/","w">> => ~res[1].ok
              /\ arg.path = <<"/","w","/","P","/","P">> => ~res[1].ok

C5_Witness ==
    /\ res # <<>>
    /\ arg.template = <<"/","w","/","{","c","}">>
    /\ arg.path = <<"/","w","/","P">>
    /\ res[1].ok

\* C6: the root template matches exactly the inbound paths that trim to
\* zero segments, and a route with at least one segment never matches an
\* inbound path that trims to zero segments.
C6_RootMatchesOnlyEmpty ==
    res # <<>> =>
        /\ Len(TemplateSegments) = 0 =>
              (res[1].ok <=> Len(InboundSegments(arg.path)) = 0)
        /\ (Len(TemplateSegments) >= 1 /\ Len(InboundSegments(arg.path)) = 0) =>
              ~res[1].ok

C6_Witness ==
    /\ res # <<>>
    /\ Len(TemplateSegments) = 0
    /\ arg.path = <<"/","/">>
    /\ res[1].ok

----------------------------------------------------------------------------
(* SpecValidate: Service.normalizeAndValidate applied to one decoded       *)
(* document with one endpoint.                                             *)

MaxParams == 2

\* "/w/{c}", "/{c}/{d}", "/w", "w/{ c }", "/{c}/{c}"
ValidatePaths ==
    { <<"/","w","/","{","c","}">>, <<"/","{","c","}","/","{","d","}">>,
      <<"/","w">>, <<"w","/","{"," ","c"," ","}">>,
      <<"/","{","c","}","/","{","c","}">> }

\* Declared parameters: names "c", " c", "d", locations absent, "path",
\* "query", " Path", required or not; and one parameter with no name.
ValidateParams ==
    {Parameter(n, in, r, <<>>, NilSchema) :
        n \in {<<"c">>, <<" ","c">>, <<"d">>},
        in \in {<<>>, sPath, sQuery, <<" ","P","a","t","h">>},
        r \in BOOLEAN}
    \cup {Parameter(<<>>, sQuery, FALSE, <<>>, NilSchema)}

\* Names "s", " s ", " "; addresses "h", " h/ ", "h//", "/", " / ", " ";
\* methods "get", " Post ", " "; paths "w", " /w ", " "; no endpoint or one.
ValidateNames == { <<"s">>, <<" ","s"," ">>, <<" ">> }

ValidateAddresses ==
    { <<"h">>, <<" ","h","/"," ">>, <<"h","/","/">>, <<"/">>,
      <<" ","/"," ">>, <<" ">> }

ValidateMethods == { <<"g","e","t">>, <<" ","P","o","s","t"," ">>, <<" ">> }

ValidatePlainPaths == { <<"w">>, <<" ","/","w"," ">>, <<" ">> }

ValidateHeads ==
    {Service(n, a, <<>>, eps, "a.yaml") :
        n \in ValidateNames, a \in ValidateAddresses,
        eps \in {<<>>} \cup
                {<<Endpoint(p, m, <<>>, <<>>, <<>>, NilBody)>> :
                    p \in ValidatePlainPaths, m \in ValidateMethods}}

InitValidate ==
    /\ InitRegistry
    /\ arg \in {Service(<<"s">>, <<"h">>, <<>>,
                        <<Endpoint(path, sGET, <<>>, <<>>, params, NilBody)>>,
                        "a.yaml") :
                    path \in ValidatePaths,
                    params \in SeqsUpTo(ValidateParams, MaxParams)}
                \cup ValidateHeads
    /\ res = <<>>

Validate ==
    /\ res = <<>>
    /\ \E orders \in ParamOrders(arg) :
          res' = <<normalizeAndValidate(arg, orders)>>
    /\ UNCHANGED <<registryVars, arg>>

NextValidate == Validate

SpecValidate == InitValidate /\ [][NextValidate]_vars

\* The parameters of endpoint ep with the given name, location path and
\* required = true.
PathParamsNamed(ep, name) ==
    {i \in 1..Len(ep.Parameters) :
        /\ ep.Parameters[i].Name = name
        /\ ep.Parameters[i].In = sPath
        /\ ep.Parameters[i].Required}

\* C9: every accepted service has, for every endpoint and every named
\* placeholder of its path, exactly one parameter with that name, location
\* path and required = true.
C9_ExactlyOnePathParam ==
    (res # <<>> /\ res[1].ok) =>
        \A i \in 1..Len(res[1].svc.Endpoints) :
            \A n \in Range(extractPathParamNames(res[1].svc.Endpoints[i].Path).names) :
                Cardinality(PathParamsNamed(res[1].svc.Endpoints[i], n)) = 1

\* What the code does ensure: at least one such parameter.
AtLeastOnePathParam ==
    (res # <<>> /\ res[1].ok) =>
        \A i \in 1..Len(res[1].svc.Endpoints) :
            \A n \in Range(extractPathParamNames(res[1].svc.Endpoints[i].Path).names) :
                Cardinality(PathParamsNamed(res[1].svc.Endpoints[i], n)) >= 1

----------------------------------------------------------------------------
(* SpecHeaders: the header of the outbound request that ProxyRequest       *)
(* builds from the header of an inbound request.                           *)

MaxHeaders == 2

\* The hop-by-hop names, "connection", "TE", "keep-alive", "X-C", "x-c" and
\* the two forwarded names.
HeaderNames ==
    Range(hopHeaders) \cup {XForwardedHost, XForwardedProto}
    \cup { <<"c","o","n","n","e","c","t","i","o","n">>,
        <<"T","E">>,
        <<"k","e","e","p","-","a","l","i","v","e">>,
        <<"X","-","C">>,
        <<"x","-","c">> }

HeaderValues == { <<"1">>, <<"1", "2">>, <<"keep-alive">> }

\* The inbound headers: at most MaxHeaders keys, each with one or two values.
InboundHeaders ==
    UNION {[keys -> HeaderValues] :
              keys \in {k \in SUBSET HeaderNames : Cardinality(k) <= MaxHeaders}}

InitHeaders ==
    /\ InitRegistry
    /\ arg \in [Header : InboundHeaders, Host : {"gw"}, TLS : BOOLEAN]
    /\ res = <<>>

BuildOutbound ==
    /\ res = <<>>
    /\ \E order \in Perms(DOMAIN arg.Header) :
          res' = <<outboundHeader(arg, order)>>
    /\ UNCHANGED <<registryVars, arg>>

NextHeaders == BuildOutbound

SpecHeaders == InitHeaders /\ [][NextHeaders]_vars

\* The hop-by-hop names in lower case.
HopNamesLower == {ToLower(hopHeaders[i]) : i \in 1..Len(hopHeaders)}

\* The inbound keys that are the header c, whatever their case.
KeysOf(c) == {k \in DOMAIN arg.Header : ToLower(k) = ToLower(c)}

\* The values of the inbound keys in the order given, one key after the other.
RECURSIVE ValuesInOrder(_, _)
ValuesInOrder(order, i) ==
    IF i > Len(order) THEN <<>>
    ELSE arg.Header[order[i]] \o ValuesInOrder(order, i + 1)

\* C7: the outbound request carries no hop-by-hop header, whatever the case
\* of the name, and carries every other inbound header, the forwarded-host
\* and forwarded-protocol headers apart, with all of its values unchanged.
C7_HopHeadersDropped ==
    res # <<>> =>
        /\ \A k \in DOMAIN res[1] : ToLower(k) \notin HopNamesLower
        /\ \A k \in DOMAIN arg.Header :
              (/\ ToLower(k) \notin HopNamesLower
               /\ ToLower(k) \notin {ToLower(XForwardedHost), ToLower(XForwardedProto)}) =>
                  /\ CanonicalHeaderKey(k) \in DOMAIN res[1]
                  /\ \E order \in Perms(KeysOf(k)) :
                        res[1][CanonicalHeaderKey(k)] = ValuesInOrder(order, 1)

C7_Witness ==
    /\ res # <<>>
    /\ DOMAIN arg.Header = {hopHeaders[1], <<"X","-","C">>}
    /\ arg.Header[hopHeaders[1]] = <<"keep-alive">>
    /\ arg.Header[<<"X","-","C">>] = <<"1">>
    /\ hopHeaders[1] \notin DOMAIN res[1]
    /\ res[1][<<"X","-","C">>] = <<"1">>

----------------------------------------------------------------------------
(* SpecDoc: the description document over the registries that loads and    *)
(* removals reach.  arg holds one earlier build, res the build made since  *)
(* the last load or removal.                                               *)

\* serviceName "u" with a description; GET /w/{c} with a description, the
\* query parameters z and a (a without a location) and a request body with
\* the media types j (a schema) and t (neither schema nor example);
\* post /w/{c} with a request body that declares no media type.
DocGuide ==
    Service(<<"u">>, <<"h","5">>, <<"d">>,
            <<Endpoint(<<"/","w","/","{","c","}">>, sGET, <<"e">>, <<>>,
                       <<Parameter(<<"z">>, sQuery, FALSE, <<>>, NilSchema),
                         Parameter(<<"a">>, <<>>, TRUE, <<"n">>, NilSchema)>>,
                       Body(<<"b">>, TRUE,
                            MapPut(MapPut(EmptyMap, <<"j">>,
                                          MediaTypeDefinition(StringSchema, Nil)),
                                   <<"t">>, MediaTypeDefinition(NilSchema, Nil)))),
              Endpoint(<<"/","w","/","{","c","}">>, <<"p","o","s","t">>, <<>>,
                       <<"o">>, <<>>, Body(<<" ">>, FALSE, EmptyMap))>>,
            "")

DocContents ==
    {[kind |-> "absent", doc |-> DocEmpty]}
    \cup {[kind |-> "yaml", doc |-> d] : d \in {DocWeather, DocPairs, DocGuide}}

BaseURLs == {"http://x", "http://y"}

DocLoadResults ==
    [path \in Sources |->
        UNION {{LoadService(path, content, orders) :
                   orders \in (IF content.kind = "yaml" THEN ParamOrders(content.doc)
                               ELSE {<<>>})} :
               content \in DocContents}]

DocLoad(path) ==
    \E parsed \in DocLoadResults[path] :
        \E order \in VisitOrders(servicesAfterLoad(Reg, path, parsed)) :
            LET reg == loadService(Reg, path, parsed, order)
            IN /\ services' = reg.services
               /\ fileToService' = reg.fileToService
               /\ routes' = reg.routes
               /\ res' = <<>>
               /\ UNCHANGED <<mu, pc, lastOp, gone, arg>>

DocRemove(path) ==
    \E order \in VisitOrders(servicesAfterRemove(Reg, path)) :
        LET reg == removeService(Reg, path, order)
        IN /\ services' = reg.services
           /\ fileToService' = reg.fileToService
           /\ routes' = reg.routes
           /\ res' = <<>>
           /\ UNCHANGED <<mu, pc, lastOp, gone, arg>>

\* One call of BuildOpenAPISpec; keep says whether this build is the one
\* later builds are compared with.
Build ==
    \E baseURL \in BaseURLs, keep \in BOOLEAN :
        \E tagOrder \in VisitOrders(services), pathOrder \in VisitOrders(services) :
            LET built == [services |-> services, baseURL |-> baseURL,
                          doc |-> BuildOpenAPISpec(services, baseURL,
                                                   tagOrder, pathOrder)]
            IN /\ res' = <<built>>
               /\ arg' = IF keep THEN <<built>> ELSE arg
               /\ UNCHANGED registryVars

InitDoc ==
    /\ InitRegistry
    /\ arg = <<>>
    /\ res = <<>>

NextDoc ==
    \/ \E path \in Sources : DocLoad(path)
    \/ \E path \in Sources : DocRemove(path)
    \/ Build

SpecDoc == InitDoc /\ [][NextDoc]_vars

\* The parameters of the list that have the location and the name of p.
ParametersLike(params, p) ==
    SelectSeq(params, LAMBDA q : q.In = p.In /\ q.Name = p.Name)

\* The two endpoints are the same but for the order of parameters that
\* differ in location or name.
SameEndpoint(e, f) ==
    /\ [e EXCEPT !.Parameters = <<>>] = [f EXCEPT !.Parameters = <<>>]
    /\ Len(e.Parameters) = Len(f.Parameters)
    /\ \A p \in Range(e.Parameters) \cup Range(f.Parameters) :
          ParametersLike(e.Parameters, p) = ParametersLike(f.Parameters, p)

\* The two registries hold the same service set.
SameServiceSet(s, t) ==
    /\ DOMAIN s = DOMAIN t
    /\ \A name \in DOMAIN s :
          /\ [s[name] EXCEPT !.Endpoints = <<>>] = [t[name] EXCEPT !.Endpoints = <<>>]
          /\ Len(s[name].Endpoints) = Len(t[name].Endpoints)
          /\ \A i \in 1..Len(s[name].Endpoints) :
                SameEndpoint(s[name].Endpoints[i], t[name].Endpoints[i])

\* C8: two builds over the same service set and the same base URL return
\* the same output, whether the registry was left alone between them or
\* reached the service set again through other loads and removals.
C8_BuildIsDeterministic ==
    (/\ arg # <<>>
     /\ res # <<>>
     /\ arg[1].baseURL = res[1].baseURL
     /\ SameServiceSet(arg[1].services, res[1].services)) =>
        arg[1].doc = res[1].doc

\* Two services with a shared path, one of them reloaded between the builds
\* with its placeholders in another order.
C8_Witness ==
    /\ arg # <<>>
    /\ res # <<>>
    /\ arg[1].baseURL = res[1].baseURL
    /\ Cardinality(DOMAIN res[1].services) = 2
    /\ arg[1].services # res[1].services
    /\ SameServiceSet(arg[1].services, res[1].services)
    /\ arg[1].doc = res[1].doc

\* The operation entries of a written document, each with its two keys.
OperationEntries(doc) ==
    UNION {{[path |-> doc.paths[i][1], method |-> doc.paths[i][2][j][1],
             operation |-> doc.paths[i][2][j][2]] :
               j \in 1..Len(doc.paths[i][2])} : i \in 1..Len(doc.paths)}

\* The endpoints of the services a build was made of, each with its service.
DeclaredEndpoints(svcs) ==
    UNION {{[service |-> svcs[name], endpoint |-> svcs[name].Endpoints[i]] :
               i \in 1..Len(svcs[name].Endpoints)} : name \in DOMAIN svcs}

\* C11: in the description document every endpoint of every active service
\* has an operation entry under its path and its method in lower case that
\* carries the name and the address of the service declaring it, and the
\* path entries are the distinct endpoint paths of the active services.
C11_EveryEndpointHasItsOperation ==
    res # <<>> =>
        /\ \A d \in DeclaredEndpoints(res[1].services) :
              \E e \in OperationEntries(res[1].doc) :
                  /\ e.path = d.endpoint.Path
                  /\ e.method = ToLower(d.endpoint.Method)
                  /\ e.operation.tags = <<d.service.Name>>
                  /\ e.operation["x-service-name"] = d.service.Name
                  /\ e.operation["x-service-address"] = d.service.Address
        /\ {e.path : e \in OperationEntries(res[1].doc)}
               = {d.endpoint.Path : d \in DeclaredEndpoints(res[1].services)}

\* The part of C11 that holds: the path entries are the endpoint paths, and
\* every entry carries the name and address of a service declaring it.
PathEntriesAreEndpointPaths ==
    res # <<>> =>
        /\ {e.path : e \in OperationEntries(res[1].doc)}
               = {d.endpoint.Path : d \in DeclaredEndpoints(res[1].services)}
        /\ \A e \in OperationEntries(res[1].doc) :
              \E d \in DeclaredEndpoints(res[1].services) :
                  /\ e.path = d.endpoint.Path
                  /\ e.method = ToLower(d.endpoint.Method)
                  /\ e.operation["x-service-name"] = d.service.Name
                  /\ e.operation["x-service-address"] = d.service.Address

----------------------------------------------------------------------------
(* SpecProxy: one inbound request through ProxyHandler or OpenAPIHandler,  *)
(* step by step, with the backend, the caller and the clock as the         *)
(* environment.  arg is the request, pc the position of the handler, res   *)
(* the response writer, the outbound call and what the environment did.    *)

ClientTimeout == 60

MaxChunks == 2

sOPTIONS == <<"O","P","T","I","O","N","S">>

\* http.ResponseWriter as the handler gets it: nothing written yet.  calls
\* lists the calls the handler makes on it, status and body what reaches
\* the caller.
NewResponseWriter ==
    [header |-> EmptyMap, wroteHeader |-> FALSE, status |-> 0, sent |-> EmptyMap,
     body |-> <<>>, calls |-> <<>>]

\* The effect of w.WriteHeader on the response: a second call is ignored.
writeStatus(w, code) ==
    IF w.wroteHeader THEN w
    ELSE [w EXCEPT !.wroteHeader = TRUE, !.status = code, !.sent = w.header]

\* w.WriteHeader(code)
WriteHeader(w, code) ==
    [writeStatus(w, code) EXCEPT
        !.calls = Append(w.calls, [call |-> "WriteHeader", code |-> code])]

\* w.Write(data): the status is 200 if none was written.
Write(w, data) ==
    [writeStatus(w, 200) EXCEPT
        !.body = Append(w.body, data),
        !.calls = Append(w.calls, [call |-> "Write", code |-> 0])]

\* http.Error(w, text, code): the status, then the text as the body.
httpError(w, code) ==
    [writeStatus(w, code) EXCEPT
        !.body = Append(w.body, "error text"),
        !.calls = Append(w.calls, [call |-> "Error", code |-> code])]

setCORSHeaders(w) ==
    [w EXCEPT !.header =
        headerSet(headerSet(headerSet(w.header, <<"A","c","c","e","s","s","-","C","o","n","t","r","o","l","-","A","l","l","o","w","-","O","r","i","g","i","n">>, "*"),
                            <<"A","c","c","e","s","s","-","C","o","n","t","r","o","l","-","A","l","l","o","w","-","H","e","a","d","e","r","s">>, "Content-Type, Authorization, X-Requested-With"),
                  <<"A","c","c","e","s","s","-","C","o","n","t","r","o","l","-","A","l","l","o","w","-","M","e","t","h","o","d","s">>, "GET, POST, PUT, PATCH, DELETE, OPTIONS")]

RECURSIVE delHopHeaders(_, _)
delHopHeaders(dst, i) ==
    IF i > Len(hopHeaders) THEN dst
    ELSE delHopHeaders(headerDel(dst, hopHeaders[i]), i + 1)

\* copyResponseHeaders(dst, src); order is the order of the range over src.
copyResponseHeaders(dst, src, order) ==
    copyKeys(delHopHeaders(dst, 1), src, order, 1)

\* A slip in ProxyHandler: the cancelled request is answered like any other
\* failure.
handleError_cancelIsFailure(w, err) ==
    IF err = "ErrNoMatchingRoute" THEN httpError(w, 404) ELSE httpError(w, 502)

\* ProxyHandler 290-300: what the handler does with the error of
\* ProxyRequest.
handleError(w, err) ==
    IF err = "ErrNoMatchingRoute" THEN httpError(w, 404)
    ELSE IF err = "context.Canceled" THEN w
    ELSE httpError(w, 502)

\* A slip in the handlers: only the proxy surface answers the pre-flight.
isPreflight_proxyOnly(surface, method) == surface = "proxy" /\ method = sOPTIONS

\* ProxyHandler 286 and OpenAPIHandler 262: r.Method == http.MethodOptions.
isPreflight(surface, method) == method = sOPTIONS

\* A slip in ProxyRequest: a failed call is issued once more.
afterDoError_retryOnce(outbound) == IF outbound < 2 THEN "do" ELSE "fail"

\* ProxyRequest 245-247: the error of g.client.Do is returned.
afterDoError(outbound) == "fail"

\* serviceName "o", OPTIONS /w/{c}.
DocPreflight ==
    Service(<<"o">>, <<"h","6">>, <<>>,
            <<Endpoint(<<"/","w","/","{","c","}">>, sOPTIONS, <<>>, <<>>, <<>>, NilBody)>>,
            "")

\* The registries the request meets: DocWeather loaded from a.yaml and
\* DocPreflight from b.yaml.
ProxyRegistries ==
    {loadService(
         loadService(Registry(EmptyMap, EmptyMap, EmptyMap), "a.yaml",
                     LoadService("a.yaml", [kind |-> "yaml", doc |-> DocWeather],
                                 CHOOSE o \in ParamOrders(DocWeather) : TRUE),
                     <<<<"w">>>>),
         "b.yaml",
         LoadService("b.yaml", [kind |-> "yaml", doc |-> DocPreflight],
                     CHOOSE o \in ParamOrders(DocPreflight) : TRUE),
         order) : order \in Perms({<<"w">>, <<"o">>})}

\* r.Method: GET, HEAD, POST, OPTIONS and "options".
ProxyMethods == {sGET, sHEAD, sPOST, sOPTIONS, ToLower(sOPTIONS)}

\* r.URL.Path: "/w/P" and "/t".
ProxyPaths == { <<"/","w","/","P">>, <<"/","t">> }

\* The header of the backend's response: Connection and X-B.
BackendHeader ==
    MapPut(MapPut(EmptyMap, hopHeaders[1], <<"close">>), <<"X","-","B">>, <<"1">>)

BackendStatuses == {200, 500}

\* The request as the handler finds it: nothing written, no outbound call.
NewExchange ==
    [w |-> NewResponseWriter, outbound |-> 0, call |-> "none", backendStatus |-> 0,
     stream |-> [state |-> "open", pending |-> 0, sent |-> 0],
     ctxDone |-> FALSE, cancelledAt |-> "never", callsAtCancel |-> 0,
     elapsed |-> 0, lookups |-> 0, builds |-> 0, err |-> "pending"]

Handler == "h"

proxyFixed == <<services, fileToService, routes, mu, lastOp, gone, arg>>

InitProxy ==
    /\ \E reg \in ProxyRegistries :
          /\ services = reg.services
          /\ fileToService = reg.fileToService
          /\ routes = reg.routes
    /\ mu = Unlocked
    /\ lastOp = NoOp
    /\ gone = NotTracking
    /\ pc = [t \in {Handler} |-> [at |-> "start"]]
    /\ arg \in [Surface : {"proxy", "openapi"}, Method : ProxyMethods,
                Path : ProxyPaths, URLError : BOOLEAN]
    /\ res = NewExchange

\* The handler returns: ProxyRequest gave err, the handler dealt with it.
Return(w, err) ==
    /\ res' = [res EXCEPT !.w = handleError(w, err), !.err = err]
    /\ Goto(Handler, [at |-> "done"])

\* ProxyHandler 285-289 and OpenAPIHandler 261-265.
HandlerBegin ==
    /\ At(Handler, "start")
    /\ IF isPreflight(arg.Surface, arg.Method)
       THEN /\ res' = [res EXCEPT !.w = WriteHeader(setCORSHeaders(res.w), 204)]
            /\ Goto(Handler, [at |-> "done"])
       ELSE /\ res' = [res EXCEPT !.w = setCORSHeaders(res.w)]
            /\ Goto(Handler, [at |-> IF arg.Surface = "openapi" THEN "build"
                                     ELSE "route"])
    /\ UNCHANGED proxyFixed

\* OpenAPIHandler 266-281: the document is built and written, or the
\* encoder fails.
OpenAPIBuild ==
    /\ At(Handler, "build")
    /\ \E ok \in BOOLEAN :
          res' = [res EXCEPT
                     !.builds = @ + 1,
                     !.w = IF ok
                           THEN Write(WriteHeader(
                                    [res.w EXCEPT !.header =
                                        headerSet(res.w.header, <<"C","o","n","t","e","n","t","-","T","y","p","e">>, "application/json")],
                                    200), "payload")
                           ELSE httpError(res.w, 500)]
    /\ Goto(Handler, [at |-> "done"])
    /\ UNCHANGED proxyFixed

\* ProxyRequest 216-232: the route lookup and the outbound request.
Route ==
    /\ At(Handler, "route")
    /\ LET m == matchRoute(routes, arg.Method, arg.Path)
           looked == [res EXCEPT !.lookups = @ + 1]
       IN IF ~m.found
          THEN /\ res' = [looked EXCEPT !.w = handleError(res.w, "ErrNoMatchingRoute"),
                                        !.err = "ErrNoMatchingRoute"]
               /\ Goto(Handler, [at |-> "done"])
          ELSE IF arg.URLError
          THEN /\ res' = [looked EXCEPT !.w = handleError(res.w, "other"),
                                        !.err = "other"]
               /\ Goto(Handler, [at |-> "done"])
          ELSE /\ res' = looked
               /\ Goto(Handler, [at |-> "do"])
    /\ UNCHANGED proxyFixed

\* ProxyRequest 244: g.client.Do(req) is called; the call ends at once when
\* the context of the request is done.
DoCall ==
    /\ At(Handler, "do")
    /\ res' = [res EXCEPT !.outbound = @ + 1, !.elapsed = 0,
                          !.call = IF res.ctxDone THEN "canceled" ELSE "inflight"]
    /\ Goto(Handler, [at |-> "wait"])
    /\ UNCHANGED proxyFixed

\* ProxyRequest 244-251: g.client.Do returns; the response headers and the
\* status are written, or the error is returned.
DoReturn ==
    /\ At(Handler, "wait")
    /\ res.call # "inflight"
    /\ IF res.call = "response"
       THEN \E order \in Perms(DOMAIN BackendHeader) :
               LET w == WriteHeader(
                            [res.w EXCEPT !.header =
                                copyResponseHeaders(res.w.header, BackendHeader, order)],
                            res.backendStatus)
               IN IF arg.Method # sHEAD
                  THEN /\ res' = [res EXCEPT !.w = w]
                       /\ Goto(Handler, [at |-> "copy"])
                  ELSE /\ res' = [res EXCEPT !.w = w, !.err = "nil"]
                       /\ Goto(Handler, [at |-> "done"])
       ELSE IF afterDoError(res.outbound) = "do"
       THEN /\ res' = res
            /\ Goto(Handler, [at |-> "do"])
       ELSE Return(res.w, IF res.call = "canceled" THEN "context.Canceled"
                          ELSE "other")
    /\ UNCHANGED proxyFixed

\* io.Copy 253: one chunk read from the backend is written to the caller;
\* the write can fail once the caller is gone.
CopyWrite ==
    /\ At(Handler, "copy")
    /\ res.stream.pending > 0
    /\ \E ok \in (IF res.ctxDone THEN BOOLEAN ELSE {TRUE}) :
          IF ok
          THEN /\ res' = [res EXCEPT !.w = Write(res.w, "chunk"),
                                     !.stream.pending = @ - 1]
               /\ UNCHANGED pc
          ELSE Return(Write(res.w, "chunk"), "other")
    /\ UNCHANGED proxyFixed

\* io.Copy returns at the end of the body: ProxyRequest returns nil.
CopyEOF ==
    /\ At(Handler, "copy")
    /\ res.stream.pending = 0
    /\ res.stream.state = "eof"
    /\ res' = [res EXCEPT !.err = "nil"]
    /\ Goto(Handler, [at |-> "done"])
    /\ UNCHANGED proxyFixed

\* io.Copy returns the error of the read: the backend broke off, the
\* timeout of the client expired, or the context of the request is done.
CopyReadError ==
    /\ At(Handler, "copy")
    /\ res.stream.pending = 0
    /\ \/ /\ res.stream.state \in {"broken", "timeout"}
          /\ Return(res.w, "other")
       \/ /\ res.ctxDone
          /\ Return(res.w, "context.Canceled")
    /\ UNCHANGED proxyFixed

\* The outbound exchange is running: the call is in flight or the body is
\* being read.
ExchangeRunning ==
    \/ res.call = "inflight"
    \/ At(Handler, "copy") /\ res.stream.state = "open"

BackendResponds ==
    /\ res.call = "inflight"
    /\ \E status \in BackendStatuses :
          res' = [res EXCEPT !.call = "response", !.backendStatus = status]
    /\ UNCHANGED <<proxyFixed, pc>>

\* The connection is refused or breaks before the response.
BackendFails ==
    /\ res.call = "inflight"
    /\ res' = [res EXCEPT !.call = "error"]
    /\ UNCHANGED <<proxyFixed, pc>>

\* The backend sends a chunk, ends the body or breaks off.
BackendStreams ==
    /\ At(Handler, "copy")
    /\ res.stream.state = "open"
    /\ \/ /\ res.stream.sent < MaxChunks
          /\ res' = [res EXCEPT !.stream.pending = @ + 1, !.stream.sent = @ + 1]
       \/ res' = [res EXCEPT !.stream.state = "eof"]
       \/ res' = [res EXCEPT !.stream.state = "broken"]
    /\ UNCHANGED <<proxyFixed, pc>>

\* One second passes while the exchange runs.
Tick ==
    /\ ExchangeRunning
    /\ res.elapsed < ClientTimeout
    /\ res' = [res EXCEPT !.elapsed = @ + 1]
    /\ UNCHANGED <<proxyFixed, pc>>

\* http.Client.Timeout (New 43-45): the exchange is ended when the timeout
\* has elapsed.
TimeoutFires ==
    /\ ExchangeRunning
    /\ res.elapsed = ClientTimeout
    /\ res' = IF res.call = "inflight" THEN [res EXCEPT !.call = "timeout"]
              ELSE [res EXCEPT !.stream.state = "timeout"]
    /\ UNCHANGED <<proxyFixed, pc>>

\* The caller disconnects: r.Context() is done, a call in flight is
\* cancelled.
CallerCancels ==
    /\ ~res.ctxDone
    /\ ~At(Handler, "done")
    /\ res' = [res EXCEPT !.ctxDone = TRUE,
                          !.cancelledAt = IF res.call = "inflight" THEN "inflight"
                                          ELSE pc[Handler].at,
                          !.callsAtCancel = Len(res.w.calls),
                          !.call = IF @ = "inflight" THEN "canceled" ELSE @]
    /\ UNCHANGED <<proxyFixed, pc>>

HandlerStep ==
    \/ HandlerBegin
    \/ OpenAPIBuild
    \/ Route
    \/ DoCall
    \/ DoReturn
    \/ CopyWrite
    \/ CopyEOF
    \/ CopyReadError

NextProxy ==
    \/ HandlerStep
    \/ BackendResponds
    \/ BackendFails
    \/ BackendStreams
    \/ Tick
    \/ TimeoutFires
    \/ CallerCancels

SpecProxy == InitProxy /\ [][NextProxy]_vars

\* The handler takes its next step, time passes and the timer fires; the
\* backend and the caller owe nothing.
SpecProxyFair ==
    SpecProxy /\ WF_vars(HandlerStep) /\ WF_vars(Tick) /\ WF_vars(TimeoutFires)

Done == At(Handler, "done")

\* The calls of the handler that set a status: WriteHeader and http.Error.
StatusCalls(w) == SelectSeq(w.calls, LAMBDA c : c.call \in {"WriteHeader", "Error"})

BadGateway == [call |-> "Error", code |-> 502]

\* C12: ProxyRequest issues at most one outbound call for a request,
\* whatever the end of the call.
C12_AtMostOneOutboundCall == res.outbound <= 1

\* The one call failed and the handler has answered.
C12_Witness ==
    /\ Done
    /\ res.outbound = 1
    /\ res.call \in {"error", "timeout"}
    /\ res.w.calls = <<BadGateway>>

\* C13: the status of a response is determined once: a failed backend call
\* gives one 502, and once the status of the backend is written no other
\* status or error is written, also when the body fails while it streams.
C13_StatusDeterminedOnce ==
    /\ Len(StatusCalls(res.w)) <= 1
    /\ (Done /\ res.call \in {"error", "timeout"}) => res.w.calls = <<BadGateway>>

\* The part of C13 that holds: a call that fails before the response gives
\* one 502 and nothing else, and the status that reaches the caller is the
\* first one written.
FailedCallReportedOnce ==
    /\ (Done /\ res.call \in {"error", "timeout"}) => res.w.calls = <<BadGateway>>
    /\ (res.w.wroteHeader /\ res.call = "response") => res.w.status = res.backendStatus

\* C14: when the caller disconnects before the outbound call has finished,
\* the call is cancelled and the handler writes no status and no body.
C14_CancelledCallWritesNothing ==
    (/\ res.cancelledAt \in {"start", "route", "do", "inflight"}
     /\ res.outbound > 0) =>
        /\ res.call = "canceled"
        /\ res.w.calls = <<>>
        /\ ~res.w.wroteHeader
        /\ Done => res.err = "context.Canceled"

C14_Witness ==
    /\ Done
    /\ res.cancelledAt = "inflight"
    /\ res.elapsed > 0
    /\ res.outbound = 1
    /\ res.err = "context.Canceled"
    /\ res.w.calls = <<>>

\* The route matched and the outbound call is to be made, is in flight or
\* its body is being copied.
Proxying == pc[Handler].at \in {"do", "wait", "copy"}

\* The request ended with one outcome: one status, or the silent return for
\* a caller that is gone.
OneOutcome ==
    IF res.err = "context.Canceled" /\ StatusCalls(res.w) = <<>> THEN TRUE
    ELSE Len(StatusCalls(res.w)) = 1

\* A 502 for a call the backend never answered is written when the timeout
\* has elapsed, not before.
TimeoutAtBoundary ==
    /\ res.call = "timeout" => res.elapsed = ClientTimeout
    /\ (res.call \in {"inflight", "timeout"} /\ res.w.calls # <<>>) =>
          /\ res.call = "timeout"
          /\ res.w.calls = <<BadGateway>>

\* C15: every request whose route matched ends with exactly one outcome,
\* also when the backend never answers: then the outcome is the 502,
\* written when the timeout has elapsed and not before.
C15_TerminatesWithOneOutcome ==
    /\ Proxying ~> (Done /\ OneOutcome)
    /\ []TimeoutAtBoundary

\* The part of C15 that holds: the request ends, and the 502 for a backend
\* that never answers comes at the timeout.
ProxiedRequestTerminates ==
    /\ Proxying ~> Done
    /\ []TimeoutAtBoundary

\* C16: a request with method OPTIONS is answered on both surfaces with the
\* cross-origin headers and status 204, with no route lookup, no build of
\* the document and no outbound call, whatever routes are registered.
C16_PreflightAnsweredLocally ==
    arg.Method = sOPTIONS =>
        /\ res.lookups = 0
        /\ res.builds = 0
        /\ res.outbound = 0
        /\ Done =>
              /\ res.w.calls = <<[call |-> "WriteHeader", code |-> 204]>>
              /\ res.w.status = 204
              /\ DOMAIN res.w.sent = {<<"A","c","c","e","s","s","-","C","o","n","t","r","o","l","-","A","l","l","o","w","-","O","r","i","g","i","n">>, <<"A","c","c","e","s","s","-","C","o","n","t","r","o","l","-","A","l","l","o","w","-","H","e","a","d","e","r","s">>, <<"A","c","c","e","s","s","-","C","o","n","t","r","o","l","-","A","l","l","o","w","-","M","e","t","h","o","d","s">>}
              /\ res.w.sent[<<"A","c","c","e","s","s","-","C","o","n","t","r","o","l","-","A","l","l","o","w","-","O","r","i","g","i","n">>] = <<"*">>

\* OPTIONS /w/P on the proxy surface, where a route with method OPTIONS
\* matches the path.
C16_Witness ==
    /\ Done
    /\ arg.Method = sOPTIONS
    /\ arg.Surface = "proxy"
    /\ matchRoute(routes, arg.Method, arg.Path).found
    /\ res.w.status = 204
    /\ res.outbound = 0

----------------------------------------------------------------------------
(* SpecMatch: empty inbound segments and the forwarding path.              *)

\* C17: a route matches no inbound path that has an empty segment between
\* separators: a named segment takes only a non-empty value.
C17_NoEmptySegmentMatches ==
    (res # <<>> /\ res[1].ok) =>
        \A i \in 1..Len(InboundSegments(arg.path)) :
            InboundSegments(arg.path)[i] # <<>>

\* The part of C17 that holds: a literal segment never matches an empty
\* inbound segment.
LiteralNeverMatchesEmpty ==
    (res # <<>> /\ res[1].ok) =>
        \A i \in 1..Len(TemplateSegments) :
            ~TemplateSegments[i].isParam => InboundSegments(arg.path)[i] # <<>>

\* C20: the forwarding path of a match is the separator followed by the
\* inbound segments joined by the separator, and the bare separator for a
\* match of zero segments.
C20_ForwardingPathIsInboundPath ==
    (res # <<>> /\ res[1].ok) =>
        /\ res[1].path = <<Slash>> \o Join(InboundSegments(arg.path), Slash)
        /\ Len(InboundSegments(arg.path)) = 0 => res[1].path = <<Slash>>
        /\ \A i \in 1..Len(TemplateSegments) :
              Split(Trim(res[1].path, Slash), Slash)[i] = InboundSegments(arg.path)[i]

\* "/w/{c}" against "//w/P/": the value P is carried, the doubled leading
\* separator and the trailing one are not.
C20_Witness ==
    /\ res # <<>>
    /\ arg.template = <<"/","w","/","{","c","}">>
    /\ arg.path = <<"/","/","w","/","P","/">>
    /\ res[1].ok
    /\ res[1].path = <<"/","w","/","P">>

----------------------------------------------------------------------------
(* Spec: the choice of the route.                                          *)

\* The route and forwarding path a lookup returns, by service and endpoint.
Selected(m) ==
    IF m.found
    THEN [found |-> TRUE, service |-> m.route.service.Name,
          endpoint |-> m.route.endpoint, targetPath |-> m.targetPath]
    ELSE [found |-> FALSE]

\* C18: the route a request resolves to is a function of the service set:
\* matchRoute returns the same service and endpoint in the index at hand
\* as in the index of any other rebuild over the same services.
C18_SelectionIsFunctionOfServices ==
    \A order \in VisitOrders(services) :
        \A method \in RequestMethods, requestPath \in RequestPaths :
            Selected(matchRoute(routes, method, requestPath))
                = Selected(matchRoute(rebuildRoutesLocked(services, order),
                                      method, requestPath))

\* The part of C18 that holds: a request that only one service matches
\* resolves to that service whatever the order of the rebuild.
SoleOwnerIsSelected ==
    \A order \in VisitOrders(services) :
        \A method \in RequestMethods, requestPath \in RequestPaths :
            Cardinality(Owners(candidateRoutes(routes, method), requestPath)) <= 1 =>
                Selected(matchRoute(routes, method, requestPath))
                    = Selected(matchRoute(rebuildRoutesLocked(services, order),
                                          method, requestPath))

\* Some route of the bucket matches the path.
MatchesIn(bucket, requestPath) ==
    \E i \in 1..Len(bucket) : matchPath(bucket[i].segments, requestPath).ok

\* C19: a HEAD request is looked up among the GET routes if and only if
\* there is no HEAD route at all; with a HEAD route registered, a HEAD
\* request none of them matches has no route even if a GET route matches;
\* any other method is looked up in its own bucket only.
C19_HeadFallsBackOnlyWhenEmpty ==
    lastOp.op = "proxy" =>
        LET method == ToUpper(lastOp.method)
        IN (lastOp.err = "nil") <=>
              IF method = sHEAD /\ Len(Bucket(routes, sHEAD)) = 0
              THEN MatchesIn(Bucket(routes, sGET), lastOp.path)
              ELSE MatchesIn(Bucket(routes, method), lastOp.path)

\* HEAD for a path only a GET route matches, with a HEAD route registered.
C19_Witness ==
    /\ lastOp.op = "proxy"
    /\ lastOp.method = sHEAD
    /\ Len(Bucket(routes, sHEAD)) > 0
    /\ ~MatchesIn(Bucket(routes, sHEAD), lastOp.path)
    /\ MatchesIn(Bucket(routes, sGET), lastOp.path)
    /\ lastOp.err = "ErrNoMatchingRoute"

----------------------------------------------------------------------------
(* Accepted services (SpecValidate).                                       *)

IsUpperCase(s) == ToUpper(s) = s

\* C21: every accepted service has a non-empty name, a non-empty base
\* address that does not end in a separator, at least one endpoint, and
\* every endpoint has a path starting with the separator and a non-empty
\* upper-case method.
C21_AcceptedServiceIsWellFormed ==
    (res # <<>> /\ res[1].ok) =>
        /\ res[1].svc.Name # <<>>
        /\ res[1].svc.Address # <<>>
        /\ ~HasSuffix(res[1].svc.Address, Slash)
        /\ Len(res[1].svc.Endpoints) >= 1
        /\ \A i \in 1..Len(res[1].svc.Endpoints) :
              /\ HasPrefix(res[1].svc.Endpoints[i].Path, Slash)
              /\ res[1].svc.Endpoints[i].Method # <<>>
              /\ IsUpperCase(res[1].svc.Endpoints[i].Method)

\* What the code does ensure: everything above except that the address is
\* non-empty.
AcceptedServiceButForAddress ==
    (res # <<>> /\ res[1].ok) =>
        /\ res[1].svc.Name # <<>>
        /\ ~HasSuffix(res[1].svc.Address, Slash)
        /\ Len(res[1].svc.Endpoints) >= 1
        /\ \A i \in 1..Len(res[1].svc.Endpoints) :
              /\ HasPrefix(res[1].svc.Endpoints[i].Path, Slash)
              /\ res[1].svc.Endpoints[i].Method # <<>>
              /\ IsUpperCase(res[1].svc.Endpoints[i].Method)

----------------------------------------------------------------------------
(* Request bodies in the description document (SpecDoc).                   *)

\* The operation entries the document holds for endpoint d of its service.
EntriesOf(doc, d) ==
    {e \in OperationEntries(doc) :
        /\ e.path = d.endpoint.Path
        /\ e.method = ToLower(d.endpoint.Method)
        /\ e.operation["x-service-name"] = d.service.Name}

\* The media types of operation op, none when it has no request body.
MediaTypesOf(op) ==
    IF "requestBody" \in DOMAIN op THEN DOMAIN op["requestBody"]["content"]
    ELSE {}

\* The media types of request-body spec rb that declare a schema or an
\* example.
FilledMediaTypes(rb) ==
    {mt \in DOMAIN rb.Content :
        ~(rb.Content[mt].Schema.nil /\ rb.Content[mt].Example.nil)}

\* C25: for every endpoint of an active service with a request-body spec,
\* every media type the spec declares appears in the request body of the
\* endpoint's operation in the description document; a request-body spec
\* without media types is dropped at validation, and the operation of an
\* endpoint without request-body spec has no request body.
C25_MediaTypesCarriedThrough ==
    res # <<>> =>
        \A d \in DeclaredEndpoints(res[1].services) :
            /\ ~d.endpoint.RequestBody.nil =>
                   d.endpoint.RequestBody.Content # EmptyMap
            /\ \A e \in EntriesOf(res[1].doc, d) :
                  IF d.endpoint.RequestBody.nil
                  THEN "requestBody" \notin DOMAIN e.operation
                  ELSE DOMAIN d.endpoint.RequestBody.Content
                           \subseteq MediaTypesOf(e.operation)

\* What the code does ensure: the media types that declare a schema or an
\* example are carried through, and no others appear.
FilledMediaTypesCarriedThrough ==
    res # <<>> =>
        \A d \in DeclaredEndpoints(res[1].services) :
            /\ ~d.endpoint.RequestBody.nil =>
                   d.endpoint.RequestBody.Content # EmptyMap
            /\ \A e \in EntriesOf(res[1].doc, d) :
                  IF d.endpoint.RequestBody.nil
                  THEN "requestBody" \notin DOMAIN e.operation
                  ELSE MediaTypesOf(e.operation)
                           = FilledMediaTypes(d.endpoint.RequestBody)

----------------------------------------------------------------------------
(* The two registry maps (Spec).                                           *)

\* Every active service's originating source maps to the service's name.
ServiceSourceMapsToName ==
    \A name \in DOMAIN services :
        /\ services[name].Source \in DOMAIN fileToService
        /\ fileToService[services[name].Source] = name

\* C26: services and fileToService agree in both directions: the source of
\* every active service maps to the service's name, and every entry of
\* fileToService names a service present in services, also when two sources
\* declare the same name.
C26_MapsAgree ==
    /\ ServiceSourceMapsToName
    /\ \A path \in DOMAIN fileToService :
          fileToService[path] \in DOMAIN services

\* The services of the current state that originate from another source
\* than path and have another name than the one in except.
ServicesOfOthers(path, except) ==
    {name \in DOMAIN services :
        services[name].Source # path /\ name \notin except}

\* In the next state the service called name is unchanged and has a route.
KeptWithRoutes(name) ==
    /\ name \in DOMAIN services'
    /\ services'[name] = services[name]
    /\ \E m \in DOMAIN routes' :
          \E i \in 1..Len(routes'[m]) : routes'[m][i].service = services[name]

\* C27: removeService(path), and loadService(path) under a changed name,
\* delete only a service that originates from path: every active service
\* of another source stays in services with its routes (a load may still
\* replace the service that has the newly declared name).
C27_OnlyOwnServiceDeleted ==
    [][/\ lastOp'.op = "remove" =>
              \A name \in ServicesOfOthers(lastOp'.path, {}) :
                  KeptWithRoutes(name)
       /\ (lastOp'.op = "load" /\ lastOp'.ok) =>
              \A name \in ServicesOfOthers(lastOp'.path, {lastOp'.name}) :
                  KeptWithRoutes(name)]_vars

\* What the code does ensure: a removal or a load deletes at most the
\* service that fileToService names for the path.
OnlyMappedNameDeleted ==
    [][(lastOp'.op \in {"remove", "load"}) =>
          \A name \in DOMAIN services :
              (lastOp'.path \in DOMAIN fileToService
                   => name # fileToService[lastOp'.path])
                  => name \in DOMAIN services']_vars

----------------------------------------------------------------------------
(* The description document against the route matcher (SpecDoc).           *)

\* Inbound paths "/w/P" and "/P/Q".
DocRequestPaths == { <<"/","w","/","P">>, <<"/","P","/","Q">> }

\* The path templates of the route index that requestPath matches.
TemplatesMatching(requestPath) ==
    {r.endpoint.Path : r \in {x \in AllRoutes : matchPath(x.segments, requestPath).ok}}

\* The active services that declare the endpoint (method in lower case,
\* path) of a document entry.
Declarers(svcs, e) ==
    {d.service.Name : d \in {x \in DeclaredEndpoints(svcs) :
                                /\ x.endpoint.Path = e.path
                                /\ ToLower(x.endpoint.Method) = e.method}}

\* matchRoute sends the request of entry e with path requestPath to the
\* service the entry names.
RoutedToTag(e, requestPath) ==
    LET m == matchRoute(routes, ToUpper(e.method), requestPath)
    IN /\ m.found
       /\ <<m.route.service.Name>> = e.operation.tags
       /\ m.route.service.Name = e.operation["x-service-name"]

\* C29: for every operation (method, path template) of the document built
\* from a registry state, a request with that method and a path that
\* matches that template (and no other template of the index) is routed,
\* in the same state, to the service named in the operation's tag and
\* x-service-name, also when two services declare the method and path.
C29_DocumentAndMatcherAgree ==
    res # <<>> =>
        \A e \in OperationEntries(res[1].doc) :
            \A q \in DocRequestPaths :
                TemplatesMatching(q) = {e.path} => RoutedToTag(e, q)

\* What the code does ensure: the same when one service alone declares the
\* method and path.
SoleDeclarerIsRouted ==
    res # <<>> =>
        \A e \in OperationEntries(res[1].doc) :
            \A q \in DocRequestPaths :
                (/\ TemplatesMatching(q) = {e.path}
                 /\ Cardinality(Declarers(res[1].services, e)) = 1)
                    => RoutedToTag(e, q)

----------------------------------------------------------------------------
(* SpecWatch: the watcher.  The directory changes, fsnotify delivers one   *)
(* event per change, the goroutine of Watch handles the events one at a    *)
(* time, and every goroutine handleWatcherEvent starts runs on its own,     *)
(* interleaved with the others and with one inbound request.  arg is the   *)
(* directory and the event channel, pc the position of every goroutine,    *)
(* res the calls of loadService made by the goroutines, lastOp the last    *)
(* return of handleWatcherEvent.                                           *)

\* The changes of the directory the watcher sees.
MaxEvents == 2

TaskNames == <<"t1", "t2", "t3", "t4">>

TaskIds == {TaskNames[i] : i \in 1..MaxEvents}

Watcher == "watch"

Requester == "req"

TempFile == "a.tmp"

WatchNames == Sources \cup {TempFile}

\* filepath.Ext of the names.
Ext ==
    [n \in WatchNames |->
        IF n = TempFile THEN <<".","t","m","p">> ELSE <<".","Y","a","m","l">>]

isYAMLFile(path) ==
    ToLower(Ext[path]) \in {<<".","y","a","m","l">>, <<".","y","m","l">>}

\* The contents a file takes: a.yaml holds service w with address h1 or
\* with address h9, b.yaml holds service t.  Version 0 is the absent file.
Versions(path) == IF path = "a.yaml" THEN 1..2 ELSE 1..1

WatchContent(path, v) ==
    IF v = 0 \/ path \notin Sources THEN [kind |-> "absent", doc |-> DocEmpty]
    ELSE IF path = "b.yaml" THEN [kind |-> "yaml", doc |-> DocTodo]
    ELSE IF v = 1 THEN [kind |-> "yaml", doc |-> DocWeather]
    ELSE [kind |-> "yaml", doc |-> [DocWeather EXCEPT !.Address = <<"h","9">>]]

\* What LoadService returns for the path when the file is at version v.
WatchParsed ==
    [path \in Sources |->
        [v \in 0..2 |->
            LET content == WatchContent(path, v)
            IN {LoadService(path, content, orders) :
                   orders \in (IF content.kind = "yaml"
                               THEN ParamOrders(content.doc) ELSE {<<>>})}]]

\* The names a directory can hold, sorted as os.ReadDir sorts them.
SortedNames == <<"a.tmp", "a.yaml", "b.yaml">>

\* The names present, from the i-th of SortedNames on.
RECURSIVE presentFrom(_, _)
presentFrom(dir, i) ==
    IF i > Len(SortedNames) THEN <<>>
    ELSE IF dir[SortedNames[i]] # 0
    THEN <<SortedNames[i]>> \o presentFrom(dir, i + 1)
    ELSE presentFrom(dir, i + 1)

\* os.ReadDir: the names present, sorted by name.
ReadDir(dir) == presentFrom(dir, 1)

\* The entries LoadExisting and refreshDirectory load, from the i-th on:
\* the YAML files.
RECURSIVE yamlFrom(_, _)
yamlFrom(entries, i) ==
    IF i > Len(entries) THEN <<>>
    ELSE IF isYAMLFile(entries[i]) THEN <<entries[i]>> \o yamlFrom(entries, i + 1)
    ELSE yamlFrom(entries, i + 1)

yamlEntries(entries) == yamlFrom(entries, 1)

\* The way handleWatcherEvent takes for an event.
handleWatcherEvent_deleteRescans(event) ==
    IF event.Name = "" THEN "return"
    ELSE IF ~isYAMLFile(event.Name)
    THEN (IF event.Op = "Rename" THEN "refresh" ELSE "return")
    ELSE IF event.Op \in {"Rename", "Remove"} THEN "remove_refresh"
    ELSE IF event.Op \in {"Write", "Create"} THEN "load"
    ELSE "return"

handleWatcherEvent(event) ==
    IF event.Name = "" THEN "return"
    ELSE IF ~isYAMLFile(event.Name)
    THEN (IF event.Op = "Rename" THEN "refresh" ELSE "return")
    ELSE IF event.Op = "Rename" THEN "remove_refresh"
    ELSE IF event.Op = "Remove" THEN "remove"
    ELSE IF event.Op \in {"Write", "Create"} THEN "load"
    ELSE "return"

\* The deferred RUnlock of matchRoute, kept until ProxyRequest returns.
afterMatch_heldForCall(m, t) == m

\* The deferred RUnlock of matchRoute.
afterMatch(m, t) == [m EXCEPT !.readers = @ \ {t}]

NoTask == [at |-> "none"]

\* The goroutine of handleWatcherEvent 122-125 for the path; burst is the
\* goroutine whose settle delay was running when this one was started, or
\* the goroutine itself.
loadTask(t, path) ==
    LET sleeping == {u \in TaskIds : /\ pc[u].at = "sleep"
                                     /\ pc[u].kind = "load"
                                     /\ pc[u].path = path}
    IN [at |-> "sleep", kind |-> "load", path |-> path, rest |-> <<>>,
        listed |-> <<>>, present |-> {},
        burst |-> IF sleeping = {} THEN t
                  ELSE pc[CHOOSE u \in sleeping : TRUE].burst]

\* The goroutine of refreshDirectory.
refreshTask ==
    [at |-> "sleep", kind |-> "refresh", path |-> "", rest |-> <<>>,
     listed |-> <<>>, present |-> {}, burst |-> "none"]

\* The goroutine goes on to the next entry of the listing, or ends.
nextEntry(rec) ==
    IF rec.rest = <<>> THEN [rec EXCEPT !.at = "done"]
    ELSE [rec EXCEPT !.at = "parse", !.path = Head(rec.rest),
                     !.rest = Tail(rec.rest)]

\* The call of loadService the goroutine makes when it goes on.
called(t, rec) ==
    IF rec.rest = <<>> THEN {}
    ELSE {[task |-> t, path |-> Head(rec.rest), burst |-> rec.burst]}

\* The services the files can declare, the maps g.services can be, and the
\* index rebuildRoutesLocked builds for each map and each visiting order.
WatchServices ==
    UNION {UNION {{r.svc : r \in {x \in WatchParsed[path][v] : x.ok}} :
                     v \in Versions(path)} : path \in Sources}

ServiceMapsOf(all) ==
    {m \in UNION {[names -> all] : names \in SUBSET {svc.Name : svc \in all}} :
        \A n \in DOMAIN m : m[n].Name = n}

WatchServiceMaps == ServiceMapsOf(WatchServices)

\* The table of the index rebuildRoutesLocked builds for every map and
\* every order of visiting its names.
RebuildsOf(maps) ==
    UNION {{<<m, order, rebuildRoutesLocked(m, order)>> :
               order \in VisitOrders(m)} : m \in maps}

WatchRebuilds == RebuildsOf(WatchServiceMaps)

rebuilt(svcs, order) ==
    (CHOOSE e \in WatchRebuilds : e[1] = svcs /\ e[2] = order)[3]

\* loadService 139-144 on the three fields of the registry.
updateLoaded(reg, path, svc, order) ==
    Registry(MapPut(deleteStale(reg.services, reg.fileToService, path, svc),
                    svc.Name, svc),
             MapPut(reg.fileToService, path, svc.Name),
             rebuilt(MapPut(deleteStale(reg.services, reg.fileToService, path, svc),
                            svc.Name, svc), order))

\* removeService 152-159 on the three fields of the registry.
updateRemoved(reg, path, order) ==
    IF path \notin DOMAIN reg.fileToService THEN reg
    ELSE Registry(MapDel(reg.services, reg.fileToService[path]),
                  MapDel(reg.fileToService, path),
                  rebuilt(MapDel(reg.services, reg.fileToService[path]), order))

\* LoadExisting 60-69: loadService for every entry from the i-th on.  The
\* index is left to the last rebuild, which replaces it as a whole.
RECURSIVE loadEntries(_, _, _, _)
loadEntries(reg, dir, entries, i) ==
    IF i > Len(entries) THEN reg
    ELSE LET parsed == CHOOSE r \in WatchParsed[entries[i]][dir[entries[i]]] : TRUE
         IN loadEntries(
                Registry(servicesAfterLoad(reg, entries[i], parsed),
                         IF parsed.ok
                         THEN MapPut(reg.fileToService, entries[i], parsed.svc.Name)
                         ELSE reg.fileToService,
                         reg.routes),
                dir, entries, i + 1)

\* The gateway as New leaves it, over a directory that holds a.yaml or
\* b.yaml or both or neither; budget is the number of changes to come.
InitWatchWith(budget) ==
    /\ services = EmptyMap
    /\ fileToService = EmptyMap
    /\ routes = EmptyMap
    /\ mu = Unlocked
    /\ pc = [t \in {Watcher, Requester} \cup TaskIds |->
                IF t = Watcher THEN [at |-> "start"]
                ELSE IF t = Requester THEN Idle ELSE NoTask]
    /\ lastOp = NoOp
    /\ gone = NotTracking
    /\ \E a, b \in 0..1 :
          arg = [dir |-> [n \in WatchNames |->
                             IF n = "a.yaml" THEN a
                             ELSE IF n = "b.yaml" THEN b ELSE 0],
                 listable |-> TRUE, events |-> <<>>,
                 budget |-> budget, spawned |-> 0]
    /\ res = {}

InitWatch == InitWatchWith(MaxEvents)

\* main.go 36-43: LoadExisting, then Watch starts its goroutine.
Startup ==
    /\ pc[Watcher].at = "start"
    /\ \E reg \in {loadEntries(Reg, arg.dir, yamlEntries(ReadDir(arg.dir)), 1)} :
          /\ services' = reg.services
          /\ fileToService' = reg.fileToService
          /\ \E order \in VisitOrders(reg.services) :
                routes' = rebuilt(reg.services, order)
    /\ pc' = [pc EXCEPT ![Watcher] = Idle]
    /\ UNCHANGED <<mu, lastOp, gone, arg, res>>

Watching == pc[Watcher].at # "start"

\* A change of the directory and the event fsnotify sends for it.
Change(dir, event) ==
    /\ Watching
    /\ arg.listable
    /\ arg.budget > 0
    /\ arg' = [arg EXCEPT !.dir = dir, !.events = Append(@, event),
                          !.budget = @ - 1]
    /\ UNCHANGED <<registryVars, res>>

\* A file is created or written.
WriteFile(path, v) ==
    Change([arg.dir EXCEPT ![path] = v],
           [Name |-> path, Op |-> IF arg.dir[path] = 0 THEN "Create" ELSE "Write"])

\* A file is deleted.
DeleteFile(path) ==
    /\ arg.dir[path] # 0
    /\ Change([arg.dir EXCEPT ![path] = 0], [Name |-> path, Op |-> "Remove"])

\* A file is renamed to a name outside the directory.
RenameFile(path) ==
    /\ arg.dir[path] # 0
    /\ Change([arg.dir EXCEPT ![path] = 0], [Name |-> path, Op |-> "Rename"])

\* The empty directory is removed: os.ReadDir fails from now on.
RemoveDirectory ==
    /\ Watching
    /\ arg.listable
    /\ \A n \in WatchNames : arg.dir[n] = 0
    /\ arg' = [arg EXCEPT !.listable = FALSE]
    /\ UNCHANGED <<registryVars, res>>

\* The goroutine started for the event taken from the channel, if any.
spawnFor(way, event) ==
    IF way = "load" THEN loadTask(TaskNames[arg.spawned + 1], event.Name)
    ELSE IF way \in {"refresh", "remove_refresh"} THEN refreshTask
    ELSE NoTask

\* handleWatcherEvent for an event that removes no service: a goroutine is
\* started or nothing is done, and the handler returns.
HandleEvent ==
    /\ pc[Watcher].at = "idle"
    /\ arg.events # <<>>
    /\ LET event == Head(arg.events)
           way == handleWatcherEvent(event)
           task == spawnFor(way, event)
       IN /\ way \in {"return", "refresh", "load"}
          /\ pc' = IF task = NoTask THEN pc
                   ELSE [pc EXCEPT ![TaskNames[arg.spawned + 1]] = task]
          /\ arg' = [arg EXCEPT !.events = Tail(@),
                                !.spawned = IF task = NoTask THEN @ ELSE @ + 1]
          /\ lastOp' = [op |-> "handled", event |-> event, removed |-> FALSE,
                        started |-> IF task = NoTask THEN "none" ELSE task.kind]
    /\ UNCHANGED <<services, fileToService, routes, mu, gone, res>>

\* handleWatcherEvent 112-119 for a rename or a delete of a YAML file:
\* removeService takes g.mu and removes the service of the path.
HandleRemove ==
    /\ pc[Watcher].at = "idle"
    /\ arg.events # <<>>
    /\ handleWatcherEvent(Head(arg.events)) \in {"remove", "remove_refresh"}
    /\ CanLock(mu)
    /\ mu' = [mu EXCEPT !.writer = Watcher]
    /\ \E order \in VisitOrders(servicesAfterRemove(Reg, Head(arg.events).Name)) :
          LET reg == updateRemoved(Reg, Head(arg.events).Name, order)
          IN /\ services' = reg.services
             /\ fileToService' = reg.fileToService
             /\ routes' = reg.routes
    /\ pc' = [pc EXCEPT ![Watcher] =
                 [at |-> "unlock", event |-> Head(arg.events),
                  way |-> handleWatcherEvent(Head(arg.events))]]
    /\ arg' = [arg EXCEPT !.events = Tail(@)]
    /\ UNCHANGED <<lastOp, gone, res>>

\* removeService returns (g.mu is released), the rescan is started after a
\* rename, and handleWatcherEvent returns.
HandleReturn ==
    /\ pc[Watcher].at = "unlock"
    /\ mu' = [mu EXCEPT !.writer = "none"]
    /\ LET task == spawnFor(pc[Watcher].way, pc[Watcher].event)
       IN /\ pc' = IF task = NoTask THEN [pc EXCEPT ![Watcher] = Idle]
                   ELSE [pc EXCEPT ![Watcher] = Idle,
                                   ![TaskNames[arg.spawned + 1]] = task]
          /\ arg' = [arg EXCEPT !.spawned = IF task = NoTask THEN @ ELSE @ + 1]
          /\ lastOp' = [op |-> "handled", event |-> pc[Watcher].event,
                        removed |-> TRUE,
                        started |-> IF task = NoTask THEN "none" ELSE task.kind]
    /\ UNCHANGED <<services, fileToService, routes, gone, res>>

\* time.Sleep returns: the goroutine of a create or write event calls
\* loadService, the goroutine of refreshDirectory goes on to os.ReadDir.
TaskWake(t) ==
    /\ pc[t].at = "sleep"
    /\ IF pc[t].kind = "load"
       THEN /\ pc' = [pc EXCEPT ![t].at = "parse"]
            /\ res' = res \cup {[task |-> t, path |-> pc[t].path,
                                 burst |-> pc[t].burst]}
       ELSE /\ pc' = [pc EXCEPT ![t].at = "readdir"]
            /\ res' = res
    /\ UNCHANGED <<services, fileToService, routes, mu, lastOp, gone, arg>>

\* refreshDirectory 181-195: os.ReadDir, the return on its error, and the
\* call of loadService for the first YAML entry.
TaskReadDir(t) ==
    /\ pc[t].at = "readdir"
    /\ LET entries == IF arg.listable THEN yamlEntries(ReadDir(arg.dir)) ELSE <<>>
           rec == [pc[t] EXCEPT !.rest = entries, !.listed = entries,
                                !.present = {p \in Sources : arg.dir[p] # 0}]
       IN /\ pc' = [pc EXCEPT ![t] = nextEntry(rec)]
          /\ res' = res \cup called(t, rec)
    /\ UNCHANGED <<services, fileToService, routes, mu, lastOp, gone, arg>>

\* loadService 130-134: LoadService reads the file as it is now, outside
\* g.mu; on an error loadService returns.
TaskParse(t) ==
    /\ pc[t].at = "parse"
    /\ \E parsed \in WatchParsed[pc[t].path][arg.dir[pc[t].path]] :
          IF parsed.ok
          THEN /\ pc' = [pc EXCEPT ![t] =
                            [pc[t] EXCEPT !.at = "commit"]
                                @@ [svc |-> parsed.svc]]
               /\ res' = res
          ELSE /\ pc' = [pc EXCEPT ![t] = nextEntry(pc[t])]
               /\ res' = res \cup called(t, pc[t])
    /\ UNCHANGED <<services, fileToService, routes, mu, lastOp, gone, arg>>

\* loadService 136-144: g.mu is taken and the registry updated.
TaskCommit(t) ==
    /\ pc[t].at = "commit"
    /\ CanLock(mu)
    /\ mu' = [mu EXCEPT !.writer = t]
    /\ LET parsed == [ok |-> TRUE, svc |-> pc[t].svc]
       IN \E order \in VisitOrders(servicesAfterLoad(Reg, pc[t].path, parsed)) :
             LET reg == updateLoaded(Reg, pc[t].path, pc[t].svc, order)
             IN /\ services' = reg.services
                /\ fileToService' = reg.fileToService
                /\ routes' = reg.routes
    /\ pc' = [pc EXCEPT ![t].at = "unlock"]
    /\ UNCHANGED <<lastOp, gone, arg, res>>

\* loadService returns: g.mu is released; refreshDirectory goes on.
TaskUnlock(t) ==
    /\ pc[t].at = "unlock"
    /\ mu' = [mu EXCEPT !.writer = "none"]
    /\ pc' = [pc EXCEPT ![t] = nextEntry(pc[t])]
    /\ res' = res \cup called(t, pc[t])
    /\ UNCHANGED <<services, fileToService, routes, lastOp, gone, arg>>

\* ProxyRequest 216: matchRoute under the read lock, for GET /w/P.
ReqMatch ==
    /\ Watching
    /\ pc[Requester].at = "idle"
    /\ CanRLock(mu)
    /\ mu' = [mu EXCEPT !.readers = @ \cup {Requester}]
    /\ pc' = [pc EXCEPT ![Requester] =
                 [at |-> "matched",
                  found |-> matchRoute(routes, sGET, <<"/","w","/","P">>).found]]
    /\ UNCHANGED <<services, fileToService, routes, lastOp, gone, arg, res>>

\* matchRoute returns; ProxyRequest returns ErrNoMatchingRoute or goes on
\* to the outbound call.
ReqReturn ==
    /\ pc[Requester].at = "matched"
    /\ mu' = afterMatch(mu, Requester)
    /\ pc' = [pc EXCEPT ![Requester] =
                 [at |-> IF pc[Requester].found THEN "do" ELSE "done"]]
    /\ UNCHANGED <<services, fileToService, routes, lastOp, gone, arg, res>>

\* ProxyRequest 244-257: g.client.Do and the copy of the response.
ReqDo ==
    /\ pc[Requester].at = "do"
    /\ pc' = [pc EXCEPT ![Requester] = [at |-> "done"]]
    /\ UNCHANGED <<services, fileToService, routes, mu, lastOp, gone, arg, res>>

\* The steps of the gateway's goroutines.
GatewayStep ==
    \/ Startup
    \/ HandleEvent
    \/ HandleRemove
    \/ HandleReturn
    \/ \E t \in TaskIds : TaskWake(t)
    \/ \E t \in TaskIds : TaskReadDir(t)
    \/ \E t \in TaskIds : TaskParse(t)
    \/ \E t \in TaskIds : TaskCommit(t)
    \/ \E t \in TaskIds : TaskUnlock(t)
    \/ ReqMatch
    \/ ReqReturn
    \/ ReqDo

NextWatch ==
    \/ \E path \in Sources, v \in 1..2 : v \in Versions(path) /\ WriteFile(path, v)
    \/ \E op \in {"Create", "Rename"} :
          IF op = "Create" THEN arg.dir[TempFile] = 0 /\ WriteFile(TempFile, 1)
          ELSE RenameFile(TempFile)
    \/ \E path \in Sources : DeleteFile(path)
    \/ \E path \in Sources : RenameFile(path)
    \/ RemoveDirectory
    \/ GatewayStep

SpecWatch == InitWatch /\ [][NextWatch]_vars

\* The changes of the directory in the runs checked for progress.
MaxFairEvents == 1

InitWatchFair == InitWatchWith(MaxFairEvents)

\* The Go scheduler runs every goroutine that can take a step.
SpecWatchFair == InitWatchFair /\ [][NextWatch]_vars /\ WF_vars(GatewayStep)

\* C22: create and write events for one source that arrive while the
\* settle delay of an earlier one is running are coalesced: loadService is
\* called once for them, not once per event.
C22_WritesCoalesced ==
    \A x, y \in res :
        (x.burst # "none" /\ x.burst = y.burst /\ x.path = y.path) => x = y

\* The goroutines in an I/O wait: a settle delay, LoadService, os.ReadDir,
\* the outbound call.
IOWaiting ==
    {t \in TaskIds : pc[t].at \in {"sleep", "parse", "readdir"}}
    \cup {t \in {Requester} : pc[t].at = "do"}

Holds(t) == mu.writer = t \/ t \in mu.readers

Quiescent ==
    /\ Watching
    /\ arg.events = <<>>
    /\ pc[Watcher].at = "idle"
    /\ \A t \in TaskIds : pc[t].at \in {"none", "done"}

\* The registry holds for the path what the directory holds now.
Converged(path) ==
    IF arg.dir[path] = 0 THEN path \notin DOMAIN fileToService
    ELSE /\ path \in DOMAIN fileToService
         /\ fileToService[path] \in DOMAIN services
         /\ [ok |-> TRUE, svc |-> services[fileToService[path]]]
                \in WatchParsed[path][arg.dir[path]]

\* C28: once every event is handled and every goroutine has finished, a
\* service is active for a source if and only if the source exists, and it
\* is the service of the source's latest content (the sources hold valid
\* definitions with distinct names).
C28_RegistryConverges == Quiescent => \A path \in Sources : Converged(path)

\* removeService has run for the path of the event in hand, which
\* handleWatcherEvent has not returned from: the path is not mapped and no
\* service comes from it.
RemovedBeforeReturn ==
    pc[Watcher].at = "unlock" =>
        /\ pc[Watcher].event.Name \notin DOMAIN fileToService
        /\ \A n \in DOMAIN services :
              services[n].Source # pc[Watcher].event.Name

\* The last return of handleWatcherEvent: after a rename of a YAML file the
\* service was removed and the rescan started, after a delete the service
\* was removed and nothing started.
ReturnedAsSpecified ==
    (lastOp.op = "handled" /\ isYAMLFile(lastOp.event.Name)) =>
        /\ lastOp.event.Op = "Rename" =>
               (lastOp.removed /\ lastOp.started = "refresh")
        /\ lastOp.event.Op = "Remove" =>
               (lastOp.removed /\ lastOp.started = "none")

\* The rescan t has ended and has called loadService for every source
\* that was in the directory when it listed it.
Rescanned(t) ==
    /\ pc[t].at = "done"
    /\ pc[t].kind = "refresh"
    /\ \A p \in pc[t].present :
          [task |-> t, path |-> p, burst |-> "none"] \in res

====
